---------------------------- MODULE Spec2Model ----------------------------
(***************************************************************************)
(* Time-series alignment and econometric estimation engine of the carbon   *)
(* leakage dashboard: frequency selection, feasibility gates and the three *)
(* model estimators (dataValidation.js, econometricAnalysis.js), with the   *)
(* linear-algebra kernel they rest on.                                     *)
(*                                                                         *)
(* Numbers.  A JavaScript number is modelled as a pair <<n, d>>: the exact *)
(* rational n/d in lowest terms with d > 0, or one of the IEEE specials    *)
(* NaN = <<0,0>>, +Infinity = <<1,0>>, -Infinity = <<-1,0>>.  null is the  *)
(* empty tuple.  Rounding of finite results is not modelled.               *)
(***************************************************************************)
EXTENDS Integers, Sequences, FiniteSets, TLC

VARIABLES mergedData, dashboard, arg, call, history

vars == <<mergedData, dashboard, arg, call, history>>

-----------------------------------------------------------------------------
(* Bounds of the model *)

\* largest sample size handed to determineFeasibleLagLength on its own
MaxN == 104

\* panel shapes: rows before 2023, rows from 2023-01 on, rows from 2026-01 on
MaxPre == 21
MaxWin == 6
MaxAfter == 1

\* a panel has at most one row with a missing variable, among its first rows
MaxHolePos == 2

\* largest lag count requested from estimateLaggedModel directly
MaxReqLags == 2

\* periods (consecutive months from 2022-11 on) a source series can cover
MaxPeriods == 3

\* longest array handed to simpleOLS and multipleOLS directly
MaxObs == 4

\* calls a caller makes in a row on the same arguments
MaxCalls == 3

\* months covered by the longest panel handed to calculateDerivedIndicators
MaxSpan == 14

\* import entries handed to aggregateImports
MaxEntries == 3

\* program constants
MinNOffByOne == 20 + 1
MinN == 20
MaxLoopLag == 12

-----------------------------------------------------------------------------
(* JavaScript numbers *)

NULL == <<>>
NaN == <<0, 0>>
PInf == <<1, 0>>

AbsInt(i) == IF i < 0 THEN -i ELSE i

RECURSIVE Gcd(_, _)
Gcd(a, b) == IF b = 0 THEN a ELSE Gcd(b, a % b)

\* the number n/d (d # 0) in lowest terms
Rat(n, d) ==
  LET g == Gcd(AbsInt(n), AbsInt(d))
      s == IF d < 0 THEN -1 ELSE 1
  IN  <<s * (n \div g), s * (d \div g)>>

Num(i) == <<i, 1>>

IsNaN(x) == x = NaN
IsFinite(x) == x # NULL /\ x[2] # 0

\* sign of a non-NaN number
Sgn(x) == IF x[1] > 0 THEN 1 ELSE IF x[1] < 0 THEN -1 ELSE 0

NumAdd(x, y) ==
  IF IsNaN(x) \/ IsNaN(y) THEN NaN
  ELSE IF x[2] = 0 /\ y[2] = 0 THEN (IF x = y THEN x ELSE NaN)
  ELSE IF x[2] = 0 THEN x
  ELSE IF y[2] = 0 THEN y
  ELSE IF x[2] = 1 /\ y[2] = 1 THEN <<x[1] + y[1], 1>>
  ELSE LET g == Gcd(x[2], y[2])
       IN  Rat(x[1] * (y[2] \div g) + y[1] * (x[2] \div g), x[2] * (y[2] \div g))

NumSub(x, y) == NumAdd(x, <<-y[1], y[2]>>)

NumMul(x, y) ==
  IF IsNaN(x) \/ IsNaN(y) THEN NaN
  ELSE IF x[2] = 0 \/ y[2] = 0
    THEN (IF Sgn(x) * Sgn(y) = 0 THEN NaN ELSE <<Sgn(x) * Sgn(y), 0>>)
  ELSE IF x[1] = 0 \/ y[1] = 0 THEN <<0, 1>>
  ELSE IF x[2] = 1 /\ y[2] = 1 THEN <<x[1] * y[1], 1>>
  ELSE LET g1 == Gcd(AbsInt(x[1]), y[2])
           g2 == Gcd(AbsInt(y[1]), x[2])
       IN  <<(x[1] \div g1) * (y[1] \div g2), (x[2] \div g2) * (y[2] \div g1)>>

\* x / y as IEEE division: a zero divisor gives NaN or an infinity
NumDiv(x, y) ==
  IF IsNaN(x) \/ IsNaN(y) THEN NaN
  ELSE IF x[2] = 0 /\ y[2] = 0 THEN NaN
  ELSE IF x[2] = 0 THEN <<Sgn(x) * (IF y[1] < 0 THEN -1 ELSE 1), 0>>
  ELSE IF y[2] = 0 THEN <<0, 1>>
  ELSE IF y[1] = 0 THEN (IF x[1] = 0 THEN NaN ELSE <<Sgn(x), 0>>)
  ELSE NumMul(x, IF y[1] < 0 THEN <<-y[2], -y[1]>> ELSE <<y[2], y[1]>>)

\* x > y; false when either side is NaN
NumGt(x, y) ==
  IF IsNaN(x) \/ IsNaN(y) THEN FALSE
  ELSE IF x[2] = 0 \/ y[2] = 0
    THEN (IF x[2] = 0 /\ y[2] = 0 THEN x[1] > y[1]
          ELSE IF x[2] = 0 THEN x[1] > 0 ELSE y[1] < 0)
  ELSE x[1] * y[2] > y[1] * x[2]

NumAbs(x) == <<AbsInt(x[1]), x[2]>>

Zero == <<0, 1>>
One == <<1, 1>>

\* value !== null && !isNaN(value)
Present(v) == v # NULL /\ ~IsNaN(v)

RECURSIVE SumSeq(_)
SumSeq(s) == IF s = <<>> THEN Zero ELSE NumAdd(SumSeq(SubSeq(s, 1, Len(s) - 1)), s[Len(s)])

\* Math.log, in units of ln 2.  Exact at powers of two and linearly
\* interpolated between them: defined for v > 0, strictly increasing, 0 at 1.
RECURSIVE Log2Floor(_, _)
Log2Floor(n, d) == IF n < 2 * d THEN 0 ELSE 1 + Log2Floor(n, 2 * d)

RECURSIVE Pow2(_)
Pow2(k) == IF k = 0 THEN 1 ELSE 2 * Pow2(k - 1)

RECURSIVE Log2Ceil(_, _)
Log2Ceil(n, d) == IF n >= d THEN 0 ELSE 1 + Log2Ceil(2 * n, d)

MathLog(v) ==
  IF IsNaN(v) THEN NaN
  ELSE IF v = PInf THEN PInf
  ELSE IF v[1] < 0 THEN NaN
  ELSE IF v[1] = 0 THEN <<-1, 0>>
  ELSE IF v[1] >= v[2]
    THEN LET k == Log2Floor(v[1], v[2])
         IN  NumAdd(Num(k), NumSub(Rat(v[1], v[2] * Pow2(k)), One))
    ELSE LET k == Log2Ceil(v[1], v[2])
         IN  NumAdd(Num(-k), NumSub(Rat(v[1] * Pow2(k), v[2]), One))

\* the largest r in lo..hi with r * r <= n
RECURSIVE SqrtFloor(_, _, _)
SqrtFloor(n, lo, hi) ==
  IF lo >= hi THEN lo
  ELSE LET mid == (lo + hi + 1) \div 2
       IN  IF mid <= n \div mid THEN SqrtFloor(n, mid, hi) ELSE SqrtFloor(n, lo, mid - 1)

\* Math.sqrt: NaN below zero, 0 at 0, exact at squares of rationals and
\* otherwise rounded down to a positive multiple of 1/d
MathSqrt(v) ==
  IF IsNaN(v) THEN NaN
  ELSE IF v = PInf THEN PInf
  ELSE IF v[1] < 0 THEN NaN
  ELSE IF v[1] = 0 THEN Zero
  ELSE Rat(SqrtFloor(v[1] * v[2], 1, v[1] * v[2]), v[2])

-----------------------------------------------------------------------------
(* dataValidation.js: lag-length gate *)

Min(a, b) == IF a < b THEN a ELSE b

\* the for-loop of determineFeasibleLagLength: largest k in 1..12, without a
\* gap from 1, with n >= 10 + (k + 1) + 1
RECURSIVE LagLoopStopsEarly(_, _, _)
LagLoopStopsEarly(n, k, maxLag) ==
  IF k >= MaxLoopLag THEN maxLag
  ELSE IF n >= 10 + (k + 1) + 1 THEN LagLoopStopsEarly(n, k + 1, k)
  ELSE maxLag

RECURSIVE LagLoop(_, _, _)
LagLoop(n, k, maxLag) ==
  IF k > MaxLoopLag THEN maxLag
  ELSE IF n >= 10 + (k + 1) + 1 THEN LagLoop(n, k + 1, k)
  ELSE maxLag

\* the gate without its caps at 3 and 6 lags for the smaller samples
determineFeasibleLagLengthUncapped(n, frequency, minParams) ==
  LET maxLag == IF n < MinN \/ frequency = "annual" THEN 0 ELSE LagLoop(n, 1, 0)
  IN  [feasible |-> maxLag > 0, maxLag |-> maxLag,
       reason |-> IF maxLag = 0
                    THEN "Insufficient observations for lagged models"
                    ELSE "Monthly data: maximum feasible lag length K"]

determineFeasibleLagLength(n, frequency, minParams) ==
  LET minN == MinN
      minNForLags == 10 + minParams
  IN  IF n < minN
        THEN [feasible |-> FALSE, maxLag |-> 0,
              reason |-> "Insufficient observations for regression analysis"]
      ELSE IF frequency = "annual"
        THEN LET maxLag == IF n >= minNForLags + 1 THEN 1 ELSE 0
             IN  [feasible |-> maxLag > 0, maxLag |-> maxLag,
                  reason |-> IF maxLag = 0
                               THEN "Insufficient annual observations for lagged models"
                               ELSE "Annual data: maximum lag length K=1"]
      ELSE IF n < minNForLags + 3
        THEN [feasible |-> FALSE, maxLag |-> 0,
              reason |-> "Insufficient observations for lagged models"]
      ELSE LET loopLag == LagLoop(n, 1, 0)
               maxLag == IF n < 50 THEN Min(loopLag, 3)
                         ELSE IF n < 100 THEN Min(loopLag, 6)
                         ELSE loopLag
           IN  [feasible |-> maxLag > 0, maxLag |-> maxLag,
                reason |-> IF maxLag = 0
                             THEN "Insufficient observations for lagged models"
                             ELSE "Monthly data: maximum feasible lag length K"]

-----------------------------------------------------------------------------
(* Panel rows.  A row is an entry of the merged panel after                *)
(* calculateDerivedIndicators: the aligned variables, their log transforms *)
(* and the CBAM dummy.  date is kept as year and month.                    *)

\* the logarithm of whatever is not null
LogTransformUnguarded(v) == IF v = NULL THEN NULL ELSE MathLog(v)

\* entry.v && entry.v > 0 ? Math.log(entry.v) : null
LogTransform(v) ==
  IF v # NULL /\ ~IsNaN(v) /\ v # Zero /\ NumGt(v, Zero) THEN MathLog(v) ELSE NULL

CbamDummyOfNoUpperYear(year) == IF year >= 2023 THEN Num(1) ELSE Num(0)

\* (year >= 2023 && year <= 2025) ? 1 : 0
CbamDummyOf(year) == IF year >= 2023 /\ year <= 2025 THEN Num(1) ELSE Num(0)

DerivedEntry(entry) ==
  [year |-> entry.year, month |-> entry.month,
   importQuantity_tons |-> entry.importQuantity_tons,
   importValue_eur |-> entry.importValue_eur,
   importUnitValue |-> entry.importUnitValue,
   etsPrice |-> entry.etsPrice,
   industryIndex |-> entry.industryIndex,
   logImport |-> LogTransform(entry.importQuantity_tons),
   logETS |-> LogTransform(entry.etsPrice),
   logIndustry |-> LogTransform(entry.industryIndex),
   cbamDummy |-> CbamDummyOf(entry.year)]

DateKeyWithoutYear(d) == d.month - 1

\* position of a date on the time axis (what Date subtraction compares)
DateKey(d) == d.year * 12 + (d.month - 1)

-----------------------------------------------------------------------------
(* dataValidation.js *)

AllRequiredPresent(d) ==
  /\ d.importQuantity_tons # NULL
  /\ d.etsPrice # NULL
  /\ d.industryIndex # NULL
  /\ d.logImport # NULL
  /\ d.logETS # NULL
  /\ d.logIndustry # NULL

RECURSIVE MinKey(_)
MinKey(rows) ==
  IF Len(rows) = 1 THEN DateKey(rows[1])
  ELSE Min(DateKey(rows[1]), MinKey(Tail(rows)))

RECURSIVE MaxKey(_)
MaxKey(rows) ==
  IF Len(rows) = 1 THEN DateKey(rows[1])
  ELSE LET m == MaxKey(Tail(rows))
       IN  IF DateKey(rows[1]) > m THEN DateKey(rows[1]) ELSE m

\* null is the record with count 0 and no periods
NoOverlap == [isNull |-> TRUE, count |-> 0, periods |-> <<>>]

detectOverlappingPeriod(data) ==
  IF Len(data) = 0 THEN NoOverlap
  ELSE LET validPeriods == SelectSeq(data, AllRequiredPresent)
       IN  IF Len(validPeriods) = 0 THEN NoOverlap
           ELSE [isNull |-> FALSE,
                 start |-> MinKey(validPeriods),
                 end |-> MaxKey(validPeriods),
                 count |-> Len(validPeriods),
                 periods |-> validPeriods]

\* the non-null values of one variable, in row order
NonNull(rows, field) ==
  LET vals == [i \in 1..Len(rows) |-> rows[i][field]]
  IN  SelectSeq(vals, LAMBDA v : v # NULL)

\* the years of the rows in order of first occurrence (Map insertion order)
RECURSIVE YearsInOrder(_, _)
YearsInOrder(rows, seen) ==
  IF rows = <<>> THEN seen
  ELSE IF \E i \in 1..Len(seen) : seen[i] = rows[1].year
    THEN YearsInOrder(Tail(rows), seen)
    ELSE YearsInOrder(Tail(rows), Append(seen, rows[1].year))

\* stable insertion sort of rows by date: .sort((a, b) => a.date - b.date)
RECURSIVE InsertByDate(_, _)
InsertByDate(sorted, r) ==
  IF sorted = <<>> THEN <<r>>
  ELSE IF DateKey(sorted[Len(sorted)]) <= DateKey(r) THEN Append(sorted, r)
  ELSE Append(InsertByDate(SubSeq(sorted, 1, Len(sorted) - 1), r), sorted[Len(sorted)])

RECURSIVE SortByDate(_)
SortByDate(rows) ==
  IF rows = <<>> THEN <<>>
  ELSE InsertByDate(SortByDate(SubSeq(rows, 1, Len(rows) - 1)), rows[Len(rows)])

AnnualRow(rows, year) ==
  LET ofYear == SelectSeq(rows, LAMBDA d : d.year = year)
      quantities == NonNull(ofYear, "importQuantity_tons")
      values == NonNull(ofYear, "importValue_eur")
      prices == NonNull(ofYear, "etsPrice")
      indices == NonNull(ofYear, "industryIndex")
      totalImports == SumSeq(quantities)
      totalValue == SumSeq(values)
      avgETS == IF Len(prices) > 0 THEN NumDiv(SumSeq(prices), Num(Len(prices))) ELSE NULL
      avgIndustry == IF Len(indices) > 0
                       THEN NumDiv(SumSeq(indices), Num(Len(indices))) ELSE NULL
  IN  [year |-> year, month |-> 1,
       importQuantity_tons |-> IF NumGt(totalImports, Zero) THEN totalImports ELSE NULL,
       importValue_eur |-> IF NumGt(totalValue, Zero) THEN totalValue ELSE NULL,
       importUnitValue |-> IF NumGt(totalImports, Zero)
                             THEN NumDiv(totalValue, totalImports) ELSE NULL,
       etsPrice |-> avgETS,
       industryIndex |-> avgIndustry,
       logImport |-> IF NumGt(totalImports, Zero) THEN MathLog(totalImports) ELSE NULL,
       logETS |-> IF avgETS # NULL /\ NumGt(avgETS, Zero) THEN MathLog(avgETS) ELSE NULL,
       logIndustry |-> IF avgIndustry # NULL /\ NumGt(avgIndustry, Zero)
                         THEN MathLog(avgIndustry) ELSE NULL,
       cbamDummy |-> ofYear[1].cbamDummy]

aggregateToAnnualByMonth(data) ==
  SortByDate([i \in 1..Len(data) |-> AnnualRow(<<data[i]>>, data[i].year)])

aggregateToAnnual(data) ==
  IF Len(data) = 0 THEN <<>>
  ELSE LET years == YearsInOrder(data, <<>>)
       IN  SortByDate([i \in 1..Len(years) |-> AnnualRow(data, years[i])])

prepareDatasetAnnualAt20(data) ==
  LET overlap == detectOverlappingPeriod(data)
  IN  IF overlap.isNull \/ overlap.count = 0
        THEN [data |-> <<>>, frequency |-> "none", overlap |-> NoOverlap,
              message |-> <<"No overlapping observations found across all required variables.">>]
      ELSE IF overlap.count <= 20
        THEN LET annualData == aggregateToAnnual(overlap.periods)
                 annualOverlap == detectOverlappingPeriod(annualData)
             IN  [data |-> annualData, frequency |-> "annual", overlap |-> annualOverlap,
                  message |-> <<"Monthly data insufficient. Aggregated to annual frequency.",
                                overlap.count, Len(annualData)>>]
      ELSE [data |-> overlap.periods, frequency |-> "monthly", overlap |-> overlap,
            message |-> <<"Using monthly frequency with overlapping observations.",
                          overlap.count>>]

prepareDataset(data) ==
  LET overlap == detectOverlappingPeriod(data)
  IN  IF overlap.isNull \/ overlap.count = 0
        THEN [data |-> <<>>, frequency |-> "none", overlap |-> NoOverlap,
              message |-> <<"No overlapping observations found across all required variables.">>]
      ELSE IF overlap.count < 20
        THEN LET annualData == aggregateToAnnual(overlap.periods)
                 annualOverlap == detectOverlappingPeriod(annualData)
             IN  [data |-> annualData, frequency |-> "annual", overlap |-> annualOverlap,
                  message |-> <<"Monthly data insufficient. Aggregated to annual frequency.",
                                overlap.count, Len(annualData)>>]
      ELSE [data |-> overlap.periods, frequency |-> "monthly", overlap |-> overlap,
            message |-> <<"Using monthly frequency with overlapping observations.",
                          overlap.count>>]

IsPreCBAM(d) == d.year < 2023
IsPostCBAMNoUpperYear(d) == d.year >= 2023

IsPostCBAM(d) == d.year >= 2023 /\ d.year <= 2025

checkCBAMFeasibility(data) ==
  IF Len(data) = 0
    THEN [feasible |-> FALSE, reason |-> "No data available", preCBAM |-> 0, postCBAM |-> 0]
  ELSE LET preCBAM == Len(SelectSeq(data, IsPreCBAM))
           postCBAM == Len(SelectSeq(data, IsPostCBAM))
           feasible == preCBAM >= 10 /\ postCBAM >= 5
       IN  [feasible |-> feasible, preCBAM |-> preCBAM, postCBAM |-> postCBAM,
            reason |-> IF feasible THEN "Sufficient observations"
                       ELSE "Insufficient post-CBAM observations (< 5 required)"]

\* ascending insertion sort of numbers: .sort((a, b) => a - b)
RECURSIVE InsertNum(_, _)
InsertNum(sorted, v) ==
  IF sorted = <<>> THEN <<v>>
  ELSE IF ~NumGt(sorted[Len(sorted)], v) THEN Append(sorted, v)
  ELSE Append(InsertNum(SubSeq(sorted, 1, Len(sorted) - 1), v), sorted[Len(sorted)])

RECURSIVE SortNum(_)
SortNum(s) ==
  IF s = <<>> THEN <<>>
  ELSE InsertNum(SortNum(SubSeq(s, 1, Len(s) - 1)), s[Len(s)])

calcStats(period) ==
  LET imports == NonNull(period, "importQuantity_tons")
      prices == NonNull(period, "etsPrice")
  IN  [n |-> Len(period),
       avgImports |-> NumDiv(SumSeq(imports), Num(Len(imports))),
       avgPrice |-> NumDiv(SumSeq(prices), Num(Len(prices))),
       medianImports |-> SortNum(imports)[(Len(imports) \div 2) + 1],
       medianPrice |-> SortNum(prices)[(Len(prices) \div 2) + 1]]

DescriptivePostCBAMNoUpperYear(d) ==
  d.year >= 2023 /\ d.importQuantity_tons # NULL /\ d.etsPrice # NULL

\* year >= 2023 && year <= 2025 && importQuantity_tons !== null && etsPrice !== null
DescriptivePostCBAM(d) ==
  /\ d.year >= 2023 /\ d.year <= 2025
  /\ d.importQuantity_tons # NULL /\ d.etsPrice # NULL

\* null is the record with isNull TRUE
NoDescriptive == [isNull |-> TRUE]

calculateCBAMDescriptive(data) ==
  IF Len(data) = 0 THEN NoDescriptive
  ELSE LET preCBAM == SelectSeq(data, LAMBDA d : /\ d.year < 2023
                                                  /\ d.importQuantity_tons # NULL
                                                  /\ d.etsPrice # NULL)
           postCBAM == SelectSeq(data, DescriptivePostCBAM)
       IN  IF Len(preCBAM) = 0 \/ Len(postCBAM) = 0 THEN NoDescriptive
           ELSE LET preStats == calcStats(preCBAM)
                    postStats == calcStats(postCBAM)
                IN  [isNull |-> FALSE,
                     preCBAM |-> preStats,
                     postCBAM |-> postStats,
                     importChange |->
                       NumMul(NumDiv(NumSub(postStats.avgImports, preStats.avgImports),
                                     preStats.avgImports), Num(100)),
                     priceChange |->
                       NumMul(NumDiv(NumSub(postStats.avgPrice, preStats.avgPrice),
                                     preStats.avgPrice), Num(100))]

-----------------------------------------------------------------------------
(* econometricAnalysis.js: linear-algebra kernel.  A vector is a sequence  *)
(* of numbers, a matrix a sequence of rows.                                *)

\* v[1] + ... + v[n], added left to right
RECURSIVE SumTo(_, _)
SumTo(v, n) == IF n = 0 THEN Zero ELSE NumAdd(SumTo(v, n - 1), v[n])

\* the outcome of a call that threw a TypeError instead of returning
TypeError == [threw |-> "TypeError"]

\* transpose reads matrix[0].map, which throws on a matrix without rows
TransposeThrows(matrix) == Len(matrix) = 0

transpose(matrix) ==
  [c \in 1..Len(matrix[1]) |-> [r \in 1..Len(matrix) |-> matrix[r][c]]]

matrixMultiply(a, b) ==
  [i \in 1..Len(a) |->
     [j \in 1..Len(b[1]) |->
        SumTo([k \in 1..Len(a[1]) |-> NumMul(a[i][k], b[k][j])], Len(a[1]))]]

matrixVectorMultiply(matrix, vector) ==
  [i \in 1..Len(matrix) |->
     SumTo([k \in 1..Len(matrix[i]) |-> NumMul(matrix[i][k], vector[k])], Len(matrix[i]))]

\* the pivot search: the first row at or below i with the largest |entry| in column i
RECURSIVE FindPivot(_, _, _, _)
FindPivot(augmented, i, k, maxRow) ==
  IF k > Len(augmented) THEN maxRow
  ELSE IF NumGt(NumAbs(augmented[k][i]), NumAbs(augmented[maxRow][i]))
    THEN FindPivot(augmented, i, k + 1, k)
    ELSE FindPivot(augmented, i, k + 1, maxRow)

SwapRows(augmented, i, m) ==
  [r \in 1..Len(augmented) |->
     IF r = i THEN augmented[m] ELSE IF r = m THEN augmented[i] ELSE augmented[r]]

\* rows below i lose factor * row i, from column i on; the division by the
\* pivot augmented[i][i] is unguarded
EliminateBelow(augmented, i) ==
  [r \in 1..Len(augmented) |->
     IF r <= i THEN augmented[r]
     ELSE LET factor == NumDiv(augmented[r][i], augmented[i][i])
          IN  [j \in 1..Len(augmented[r]) |->
                 IF j < i THEN augmented[r][j]
                 ELSE NumSub(augmented[r][j], NumMul(factor, augmented[i][j]))]]

RECURSIVE ForwardEliminate(_, _)
ForwardEliminate(augmented, i) ==
  IF i > Len(augmented) THEN augmented
  ELSE ForwardEliminate(
         EliminateBelow(SwapRows(augmented, i, FindPivot(augmented, i, i + 1, i)), i),
         i + 1)

\* x[i] -= augmented[i][j] * x[j] for j = i + 1 .. n; solved holds x[i+1..n]
RECURSIVE SubtractKnown(_, _, _, _, _)
SubtractKnown(augmented, i, j, solved, acc) ==
  IF j > Len(augmented) THEN acc
  ELSE SubtractKnown(augmented, i, j + 1, solved,
                     NumSub(acc, NumMul(augmented[i][j], solved[j - i])))

RECURSIVE BackSubstitute(_, _, _)
BackSubstitute(augmented, i, solved) ==
  IF i = 0 THEN solved
  ELSE LET n == Len(augmented)
           xi == NumDiv(SubtractKnown(augmented, i, i + 1, solved, augmented[i][n + 1]),
                        augmented[i][i])
       IN  BackSubstitute(augmented, i - 1, <<xi>> \o solved)

\* always returns the vector x: no pivot is tested against zero
solveLinearSystem(A, b) ==
  LET augmented == [i \in 1..Len(A) |-> Append(A[i], b[i])]
  IN  BackSubstitute(ForwardEliminate(augmented, 1), Len(A), <<>>)

\* the value of a statistic the model does not evaluate (Math.sqrt, Math.exp
\* and the residual sums behind R-squared, standard errors, t and p values)
Statistic == "number"

-----------------------------------------------------------------------------
(* econometricAnalysis.js: multiple regression *)

\* a null result; every other result is a record without this field
NullResult == [isNull |-> TRUE]

\* every array taken for falsy as well
FalsyForArrays(value) == Len(value) >= 0

\* !value, for a value that is null or an array: only null is falsy, an array
\* is truthy whatever it holds
Falsy(value) == value = NULL

\* an off-by-one loop start: the first row is never valid
RowValidAfterFirst(y, x, i) ==
  /\ i > 1
  /\ Present(y[i])
  /\ \A j \in 1..Len(x) : i <= Len(x[j]) /\ Present(x[j][i])

\* row i of y is valid when y[i] and every x[j][i] are neither null nor NaN;
\* past the end of a regressor x[j][i] is undefined, and isNaN(undefined) holds
RowValid(y, x, i) ==
  /\ Present(y[i])
  /\ \A j \in 1..Len(x) : i <= Len(x[j]) /\ Present(x[j][i])

multipleOLS(y, x) ==
  LET n == Len(y)
      k == Len(x)
  IN  IF n < k + 1 THEN NullResult
      ELSE
        LET validIndices == SelectSeq([i \in 1..n |-> i], LAMBDA i : RowValid(y, x, i))
        IN  IF Len(validIndices) < k + 1 THEN NullResult
            ELSE
              LET Y == [r \in 1..Len(validIndices) |-> y[validIndices[r]]]
                  X == [r \in 1..Len(validIndices) |->
                          <<One>> \o [j \in 1..k |-> x[j][validIndices[r]]]]
                  Xt == transpose(X)
                  XtX == matrixMultiply(Xt, X)
                  XtY == matrixVectorMultiply(Xt, Y)
                  coefficients == solveLinearSystem(XtX, XtY)
              IN  IF TransposeThrows(X) THEN TypeError
                  ELSE IF Falsy(coefficients) THEN NullResult
                  ELSE [coefficients |-> coefficients,
                        rSquared |-> Statistic,
                        standardErrors |-> [i \in 1..(k + 1) |-> Statistic],
                        tStats |-> [i \in 1..(k + 1) |-> Statistic],
                        pValues |-> [i \in 1..(k + 1) |-> Statistic],
                        n |-> Len(validIndices)]

-----------------------------------------------------------------------------
(* econometricAnalysis.js: simple regression *)

\* an off-by-one loop start: the first pair is never valid
PairValidAfterFirst(y, x, i) == i > 1 /\ Present(y[i]) /\ Present(x[i])

\* y[i] !== null && !isNaN(y[i]) && x[i] !== null && !isNaN(x[i])
PairValid(y, x, i) == Present(y[i]) /\ Present(x[i])

\* the sum of (v - mean)^2 over values
SumSquaredDeviations(values, mean) ==
  SumSeq([r \in 1..Len(values) |->
            NumMul(NumSub(values[r], mean), NumSub(values[r], mean))])

simpleOLS(y, x) ==
  LET n == Min(Len(y), Len(x))
      valid == SelectSeq([i \in 1..n |-> i], LAMBDA i : PairValid(y, x, i))
      nValid == Len(valid)
  IN  IF nValid < 2 THEN NullResult
      ELSE
        LET px == [r \in 1..nValid |-> x[valid[r]]]
            py == [r \in 1..nValid |-> y[valid[r]]]
            sumX == SumSeq(px)
            sumY == SumSeq(py)
            sumXY == SumSeq([r \in 1..nValid |-> NumMul(px[r], py[r])])
            sumXX == SumSeq([r \in 1..nValid |-> NumMul(px[r], px[r])])
            meanX == NumDiv(sumX, Num(nValid))
            meanY == NumDiv(sumY, Num(nValid))
            slope == NumDiv(NumSub(sumXY, NumMul(NumMul(Num(nValid), meanX), meanY)),
                            NumSub(sumXX, NumMul(NumMul(Num(nValid), meanX), meanX)))
            intercept == NumSub(meanY, NumMul(slope, meanX))
            yPred == [r \in 1..nValid |-> NumAdd(intercept, NumMul(slope, px[r]))]
            ssRes == SumSeq([r \in 1..nValid |->
                               NumMul(NumSub(py[r], yPred[r]), NumSub(py[r], yPred[r]))])
            ssTot == SumSquaredDeviations(py, meanY)
            rSquared == IF NumGt(ssTot, Zero) THEN NumSub(One, NumDiv(ssRes, ssTot))
                        ELSE Zero
            standardError == MathSqrt(NumDiv(ssRes, Num(nValid - 2)))
            seSlope == NumDiv(standardError, MathSqrt(SumSquaredDeviations(px, meanX)))
            tStat == IF NumGt(seSlope, Zero) THEN NumDiv(slope, seSlope) ELSE Zero
        IN  [intercept |-> intercept,
             slope |-> slope,
             rSquared |-> rSquared,
             standardError |-> standardError,
             seSlope |-> seSlope,
             tStat |-> tStat,
             pValue |-> Statistic,
             n |-> nValid]

-----------------------------------------------------------------------------
(* econometricAnalysis.js: alignment helpers of the estimators *)

CBAMRowUsable(d) ==
  /\ Present(d.logImport)
  /\ Present(d.etsPrice) /\ NumGt(d.etsPrice, Zero)
  /\ Present(d.logIndustry)

alignDataWithCBAM(data, includeInteraction) ==
  LET rows == SelectSeq(data, CBAMRowUsable)
      m == Len(rows)
  IN  [y |-> [i \in 1..m |-> rows[i].logImport],
       x1 |-> [i \in 1..m |-> rows[i].etsPrice],
       x2 |-> [i \in 1..m |-> IF includeInteraction
                                THEN NumMul(rows[i].etsPrice, rows[i].cbamDummy)
                                ELSE rows[i].logIndustry],
       x3 |-> [i \in 1..m |-> IF includeInteraction
                                THEN rows[i].logIndustry
                                ELSE rows[i].cbamDummy]]

\* etsPrice === null || isNaN(etsPrice) || etsPrice <= 0
LagUnavailable(etsPrice) ==
  etsPrice = NULL \/ IsNaN(etsPrice) \/ ~NumGt(etsPrice, Zero)

LagRowUsableOneLagMore(data, i, maxLags) ==
  /\ Present(data[i].logImport)
  /\ Present(data[i].logIndustry)
  /\ \A k \in 0..(maxLags + 1) : i - k >= 1 => ~LagUnavailable(data[i - k].etsPrice)

\* row i (1-based) enters the lagged sample
LagRowUsable(data, i, maxLags) ==
  /\ Present(data[i].logImport)
  /\ Present(data[i].logIndustry)
  /\ \A k \in 0..maxLags : ~LagUnavailable(data[i - k].etsPrice)

alignDataWithLags(data, maxLags) ==
  LET idx == SelectSeq([i \in 1..Len(data) |-> i],
                       LAMBDA i : i > maxLags /\ LagRowUsable(data, i, maxLags))
      m == Len(idx)
  IN  [y |-> [r \in 1..m |-> data[idx[r]].logImport],
       carbonPrices |-> [k \in 1..(maxLags + 1) |->
                           [r \in 1..m |-> data[idx[r] - (k - 1)].etsPrice]],
       activity |-> [r \in 1..m |-> data[idx[r]].logIndustry]]

-----------------------------------------------------------------------------
(* econometricAnalysis.js: legacy elasticity estimates and summary statistics *)

\* indices i (1-based, i > lag) at which y of row i and both x of row i - lag are present
alignData(data, keys, lag) ==
  LET idx == SelectSeq([i \in 1..Len(data) |-> i],
                       LAMBDA i : /\ i > lag
                                  /\ Present(data[i][keys[1]])
                                  /\ Present(data[i - lag][keys[2]])
                                  /\ Present(data[i - lag][keys[3]]))
  IN  [y |-> [r \in 1..Len(idx) |-> data[idx[r]][keys[1]]],
       x1 |-> [r \in 1..Len(idx) |-> data[idx[r] - lag][keys[2]]],
       x2 |-> [r \in 1..Len(idx) |-> data[idx[r] - lag][keys[3]]]]

\* the entry estimateElasticity pushes for one lag, or nothing
ElasticityAt(data, lag) ==
  LET aligned == alignData(data, <<"logImport", "logETS", "logIndustry">>, lag)
  IN  IF Len(aligned.y) > 10
        THEN LET fit == multipleOLS(aligned.y, <<aligned.x1, aligned.x2>>)
             IN  IF fit = NullResult THEN <<>>
                 ELSE <<[lag |-> lag,
                         elasticity |-> fit.coefficients[2],
                         se |-> fit.standardErrors[2],
                         tStat |-> fit.tStats[2],
                         pValue |-> fit.pValues[2],
                         rSquared |-> fit.rSquared,
                         industryCoeff |-> fit.coefficients[3],
                         intercept |-> fit.coefficients[1],
                         n |-> fit.n]>>
        ELSE <<>>

RECURSIVE ElasticityLags(_, _, _)
ElasticityLags(data, lag, maxLags) ==
  IF lag > maxLags THEN <<>>
  ELSE ElasticityAt(data, lag) \o ElasticityLags(data, lag + 1, maxLags)

estimateElasticity(data, useLags, maxLags) ==
  ElasticityAt(data, 0) \o (IF useLags THEN ElasticityLags(data, 1, maxLags) ELSE <<>>)

\* estimateElasticity does not return: one of its regressions threw
ElasticityThrows(data, useLags, maxLags) ==
  \E lag \in 0..(IF useLags THEN maxLags ELSE 0) :
    LET aligned == alignData(data, <<"logImport", "logETS", "logIndustry">>, lag)
    IN  /\ Len(aligned.y) > 10
        /\ multipleOLS(aligned.y, <<aligned.x1, aligned.x2>>) = TypeError

SummaryVariables ==
  {"importQuantity_tons", "logImport", "etsPrice", "industryIndex", "logIndustry", "cbamDummy"}

calculateSummaryStats(data, variableName) ==
  LET raw == [i \in 1..Len(data) |->
                IF variableName \in SummaryVariables THEN data[i][variableName] ELSE NULL]
      values == SelectSeq(raw, Present)
      m == Len(values)
  IN  IF m = 0 THEN NullResult
      ELSE LET sorted == SortNum(values)
               mean == NumDiv(SumTo(values, m), Num(m))
               median == IF m % 2 = 0
                           THEN NumDiv(NumAdd(sorted[m \div 2], sorted[(m \div 2) + 1]), Num(2))
                           ELSE sorted[(m \div 2) + 1]
           IN  [variable |-> variableName,
                mean |-> mean,
                median |-> median,
                stdDev |-> Statistic,
                min |-> sorted[1],
                max |-> sorted[m],
                n |-> m]

-----------------------------------------------------------------------------
(* econometricAnalysis.js: the three estimators *)

estimateBaselineModel(data, frequency) ==
  LET aligned == alignDataWithCBAM(data, FALSE)
  IN  IF Len(aligned.y) < 20
        THEN [feasible |-> FALSE,
              reason |-> "Insufficient observations (N < 20 required for OLS)",
              n |-> Len(aligned.y)]
      ELSE
        LET result == multipleOLS(aligned.y, <<aligned.x1, aligned.x2, aligned.x3>>)
        IN  IF result = TypeError THEN TypeError
            ELSE IF result = NullResult
              THEN [feasible |-> FALSE,
                    reason |-> "Regression estimation failed",
                    n |-> Len(aligned.y)]
            ELSE [feasible |-> TRUE,
                  model |-> "Baseline",
                  frequency |-> frequency,
                  intercept |-> result.coefficients[1],
                  carbonPriceCoeff |-> result.coefficients[2],
                  carbonPriceSE |-> result.standardErrors[2],
                  carbonPriceTStat |-> result.tStats[2],
                  carbonPricePValue |-> result.pValues[2],
                  activityCoeff |-> result.coefficients[3],
                  activitySE |-> result.standardErrors[3],
                  activityTStat |-> result.tStats[3],
                  activityPValue |-> result.pValues[3],
                  cbamCoeff |-> result.coefficients[4],
                  cbamSE |-> result.standardErrors[4],
                  cbamTStat |-> result.tStats[4],
                  cbamPValue |-> result.pValues[4],
                  rSquared |-> result.rSquared,
                  n |-> result.n]

EffectiveMaxLagsUncapped(requestedMaxLags, frequency) == requestedMaxLags

\* frequency === 'annual' ? Math.min(requestedMaxLags, 1) : requestedMaxLags
EffectiveMaxLags(requestedMaxLags, frequency) ==
  IF frequency = "annual" THEN Min(requestedMaxLags, 1) ELSE requestedMaxLags

\* no observations required at all
MinRequiredNone(effectiveMaxLags) == 0 * effectiveMaxLags

\* const minRequired = 10 + effectiveMaxLags + 2
MinRequired(effectiveMaxLags) == 10 + effectiveMaxLags + 2

\* the n of estimateLaggedModel: rows with logImport, etsPrice, logIndustry non-null
LaggedN(data) ==
  Len(SelectSeq(data, LAMBDA d :
        d.logImport # NULL /\ d.etsPrice # NULL /\ d.logIndustry # NULL))

\* neither sample check of estimateLaggedModel returned
NoEarlyReturn == [returned |-> FALSE]

\* the two sample checks of estimateLaggedModel: the verdict one of them
\* returns, or NoEarlyReturn when the function goes on to the regression
LaggedSampleChecks(data, requestedMaxLags, frequency) ==
  LET n == LaggedN(data)
      effectiveMaxLags == EffectiveMaxLags(requestedMaxLags, frequency)
      minRequired == MinRequired(effectiveMaxLags)
  IN  IF n < minRequired
        THEN [feasible |-> FALSE,
              reason |-> "Insufficient observations (N < required for K lagged model)",
              n |-> n,
              requestedMaxLags |-> effectiveMaxLags]
      ELSE
        LET aligned == alignDataWithLags(data, effectiveMaxLags)
        IN  IF Len(aligned.y) < minRequired
              THEN [feasible |-> FALSE,
                    reason |-> "Insufficient aligned observations (N < required)",
                    n |-> Len(aligned.y),
                    requestedMaxLags |-> effectiveMaxLags]
            ELSE NoEarlyReturn

estimateLaggedModel(data, requestedMaxLags, frequency) ==
  LET effectiveMaxLags == EffectiveMaxLags(requestedMaxLags, frequency)
      early == LaggedSampleChecks(data, requestedMaxLags, frequency)
      aligned == alignDataWithLags(data, effectiveMaxLags)
  IN  IF early # NoEarlyReturn THEN early
      ELSE
        LET X == [i \in 1..Len(aligned.y) |->
                    <<One>>
                    \o [k \in 1..(effectiveMaxLags + 1) |-> aligned.carbonPrices[k][i]]
                    \o <<aligned.activity[i]>>]
            Y == aligned.y
            Xt == transpose(X)
            XtX == matrixMultiply(Xt, X)
            XtY == matrixVectorMultiply(Xt, Y)
            coefficients == solveLinearSystem(XtX, XtY)
        IN  IF TransposeThrows(X) THEN TypeError
            ELSE IF Falsy(coefficients) THEN NullResult
            ELSE [feasible |-> TRUE,
                  model |-> "Lagged",
                  frequency |-> frequency,
                  maxLags |-> effectiveMaxLags,
                  intercept |-> coefficients[1],
                  lagCoefficients |->
                    [k \in 1..(effectiveMaxLags + 1) |->
                       [lag |-> k - 1,
                        coefficient |-> coefficients[k + 1],
                        se |-> Statistic,
                        tStat |-> Statistic,
                        pValue |-> Statistic]],
                  activityCoeff |-> coefficients[effectiveMaxLags + 3],
                  activitySE |-> Statistic,
                  activityTStat |-> Statistic,
                  activityPValue |-> Statistic,
                  rSquared |-> Statistic,
                  n |-> Len(Y)]

estimateCBAMInteractionModel(data, frequency) ==
  LET preCBAM == Len(SelectSeq(data, IsPreCBAM))
      postCBAM == Len(SelectSeq(data, IsPostCBAM))
  IN  IF preCBAM < 10 \/ postCBAM < 5
        THEN [feasible |-> FALSE,
              reason |-> "Insufficient CBAM period coverage",
              preCBAM |-> preCBAM,
              postCBAM |-> postCBAM]
      ELSE
        LET aligned == alignDataWithCBAM(data, TRUE)
        IN  IF Len(aligned.y) < 20
              THEN [feasible |-> FALSE,
                    reason |-> "Insufficient observations (N < 20 required for OLS)",
                    n |-> Len(aligned.y),
                    preCBAM |-> preCBAM,
                    postCBAM |-> postCBAM]
            ELSE
              LET result == multipleOLS(aligned.y, <<aligned.x1, aligned.x2, aligned.x3>>)
              IN  IF result = TypeError THEN TypeError
                  ELSE IF result = NullResult
                    THEN [feasible |-> FALSE,
                          reason |-> "Regression estimation failed",
                          n |-> Len(aligned.y),
                          preCBAM |-> preCBAM,
                          postCBAM |-> postCBAM]
                  ELSE [feasible |-> TRUE,
                        model |-> "CBAM Interaction",
                        frequency |-> frequency,
                        intercept |-> result.coefficients[1],
                        carbonPriceCoeff |-> result.coefficients[2],
                        carbonPriceSE |-> result.standardErrors[2],
                        carbonPriceTStat |-> result.tStats[2],
                        carbonPricePValue |-> result.pValues[2],
                        cbamInteractionCoeff |-> result.coefficients[3],
                        cbamInteractionSE |-> result.standardErrors[3],
                        cbamInteractionTStat |-> result.tStats[3],
                        cbamInteractionPValue |-> result.pValues[3],
                        activityCoeff |-> result.coefficients[4],
                        activitySE |-> result.standardErrors[4],
                        activityTStat |-> result.tStats[4],
                        activityPValue |-> result.pValues[4],
                        rSquared |-> result.rSquared,
                        n |-> result.n,
                        preCBAM |-> preCBAM,
                        postCBAM |-> postCBAM]

-----------------------------------------------------------------------------
(* CarbonLeakageDashboard.jsx: the analysis effect, run when mergedData    *)
(* has been loaded                                                         *)

NotAnalysed == [analysed |-> FALSE]

\* the results the effect stores, given what prepareDataset(mergedData) returned
AnalysisEffect(preparedData) ==
  LET analysisData == preparedData.data
      frequency == preparedData.frequency
      baseline == estimateBaselineModel(analysisData, frequency)
      lagInfo == determineFeasibleLagLength(Len(analysisData), frequency, 3)
      lagsFeasible == lagInfo.feasible /\ lagInfo.maxLag >= 1
      maxLag6 == Min(6, lagInfo.maxLag)
      cbamCheck == checkCBAMFeasibility(analysisData)
  IN  [analysed |-> TRUE,
       preparedData |-> preparedData,
       dataFrequency |-> frequency,
       regressionResults |-> estimateElasticity(analysisData, TRUE, 3),
       baselineModel |-> baseline,
       lagInfo |-> lagInfo,
       laggedModel6 |->
         IF lagsFeasible THEN estimateLaggedModel(analysisData, maxLag6, frequency)
         ELSE [feasible |-> FALSE, reason |-> lagInfo.reason],
       laggedModel12 |->
         IF lagsFeasible
           THEN IF lagInfo.maxLag >= 12 /\ frequency = "monthly"
                  THEN estimateLaggedModel(analysisData, 12, frequency)
                  ELSE [feasible |-> FALSE,
                        reason |-> "Long lag structures are statistically infeasible"]
           ELSE [feasible |-> FALSE, reason |-> lagInfo.reason],
       cbamInteractionModel |->
         IF cbamCheck.feasible
           THEN estimateCBAMInteractionModel(analysisData, frequency)
           ELSE [feasible |-> FALSE, reason |-> cbamCheck.reason,
                 preCBAM |-> cbamCheck.preCBAM, postCBAM |-> cbamCheck.postCBAM],
       cbamDescriptive |->
         IF cbamCheck.feasible THEN NoDescriptive
         ELSE calculateCBAMDescriptive(analysisData),
       summaryStats |->
         [imports |-> calculateSummaryStats(analysisData, "importQuantity_tons"),
          logImports |-> calculateSummaryStats(analysisData, "logImport"),
          carbonPrice |-> calculateSummaryStats(analysisData, "etsPrice"),
          activity |-> calculateSummaryStats(analysisData, "industryIndex"),
          logActivity |-> calculateSummaryStats(analysisData, "logIndustry")]]

-----------------------------------------------------------------------------
(* Preprocessing: aggregateImports.  An import entry is one flow of one    *)
(* partner country in one month.  Its period key is its yearMonth, or the  *)
(* month of its date when it carries none; the key is kept as the position *)
(* year * 12 + month - 1 of the month on the time axis.                    *)

\* entry.yearMonth || `${date.getFullYear()}-${String(date.getMonth() + 1).padStart(2, '0')}`
ImportKey(entry) ==
  IF "yearMonth" \in DOMAIN entry THEN entry.yearMonth ELSE DateKey(entry.date)

CountryKeyWithoutPeriod(key, partnerCountry) == <<0, partnerCountry>>

\* `${key}_${entry.partnerCountry}`
CountryKey(key, partnerCountry) == <<key, partnerCountry>>

\* the position of the record the Map holds under mapKey, 0 when it has none
MapIndex(keys, mapKey) ==
  IF \E i \in 1..Len(keys) : keys[i] = mapKey
    THEN CHOOSE i \in 1..Len(keys) : keys[i] = mapKey
    ELSE 0

\* one pass of the forEach: maps is the two Maps, each as its keys and its
\* records in insertion order
AggregateEntry(maps, entry) ==
  LET key == ImportKey(entry)
      countryKey == CountryKey(key, entry.partnerCountry)
      totalKeys == IF MapIndex(maps.totalKeys, key) = 0
                     THEN Append(maps.totalKeys, key) ELSE maps.totalKeys
      totals == IF MapIndex(maps.totalKeys, key) = 0
                  THEN Append(maps.totals,
                              [date |-> entry.date, yearMonth |-> key,
                               totalQuantity_tons |-> Zero, totalValue_eur |-> Zero,
                               countries |-> <<>>])
                  ELSE maps.totals
      t == MapIndex(totalKeys, key)
      countryKeys == IF MapIndex(maps.countryKeys, countryKey) = 0
                       THEN Append(maps.countryKeys, countryKey) ELSE maps.countryKeys
      countries == IF MapIndex(maps.countryKeys, countryKey) = 0
                     THEN Append(maps.countries,
                                 [date |-> entry.date, yearMonth |-> key,
                                  partnerCountry |-> entry.partnerCountry,
                                  quantity_tons |-> Zero, value_eur |-> Zero])
                     ELSE maps.countries
      c == MapIndex(countryKeys, countryKey)
  IN  [totalKeys |-> totalKeys,
       totals |-> [totals EXCEPT
                     ![t].totalQuantity_tons = NumAdd(@, entry.quantity_tons),
                     ![t].totalValue_eur = NumAdd(@, entry.value_eur),
                     ![t].countries =
                       IF \E i \in 1..Len(@) : @[i] = entry.partnerCountry
                         THEN @ ELSE Append(@, entry.partnerCountry)],
       countryKeys |-> countryKeys,
       countries |-> [countries EXCEPT
                        ![c].quantity_tons = NumAdd(@, entry.quantity_tons),
                        ![c].value_eur = NumAdd(@, entry.value_eur)]]

RECURSIVE AggregateEntries(_, _)
AggregateEntries(importsData, maps) ==
  IF importsData = <<>> THEN maps
  ELSE AggregateEntries(Tail(importsData), AggregateEntry(maps, importsData[1]))

aggregateImports(importsData) ==
  LET maps == AggregateEntries(importsData,
                               [totalKeys |-> <<>>, totals |-> <<>>,
                                countryKeys |-> <<>>, countries |-> <<>>])
  IN  [total |-> [i \in 1..Len(maps.totals) |->
                    [unit_value |->
                       IF NumGt(maps.totals[i].totalQuantity_tons, Zero)
                         THEN NumDiv(maps.totals[i].totalValue_eur,
                                     maps.totals[i].totalQuantity_tons)
                         ELSE Zero] @@ maps.totals[i]],
       byCountry |-> maps.countries]

-----------------------------------------------------------------------------
(* Preprocessing: mergeDatasets and calculateDerivedIndicators.  A series  *)
(* entry carries its period as yearMonth, the position year * 12 + month - *)
(* 1 of the month on the time axis; the 'YYYY-MM' strings sort in that     *)
(* order and every entry's date lies in its yearMonth.                     *)

\* a value in a boolean position: null, NaN and 0 are falsy
Truthy(v) == v # NULL /\ ~IsNaN(v) /\ v # Zero

\* Array.from(allPeriods).sort()
RECURSIVE SortPeriods(_)
SortPeriods(periods) ==
  IF periods = {} THEN <<>>
  ELSE LET first == CHOOSE p \in periods : \A q \in periods : p <= q
       IN  <<first>> \o SortPeriods(periods \ {first})

\* series.find(e => e.yearMonth === period): the first such entry, or
\* undefined (the empty tuple)
FindPeriod(series, period) ==
  LET at == {i \in 1..Len(series) : series[i].yearMonth = period}
  IN  IF at = {} THEN NULL
      ELSE series[CHOOSE i \in at : \A j \in at : i <= j]

\* entry?.field || null
FieldOrNull(entry, field) ==
  IF entry = NULL THEN NULL ELSE IF Truthy(entry[field]) THEN entry[field] ELSE NULL

AllPeriodsOfImportsOnly(total, etsData, industryData) ==
  {total[i].yearMonth : i \in 1..Len(total)}

\* the Set allPeriods after the three forEach loops
AllPeriods(total, etsData, industryData) ==
  {total[i].yearMonth : i \in 1..Len(total)}
  \cup {etsData[i].yearMonth : i \in 1..Len(etsData)}
  \cup {industryData[i].yearMonth : i \in 1..Len(industryData)}

mergeDatasets(total, etsData, industryData) ==
  LET allPeriods == AllPeriods(total, etsData, industryData)
      sorted == SortPeriods(allPeriods)
      found == SelectSeq(sorted, LAMBDA period :
                 ~(/\ FindPeriod(total, period) = NULL
                   /\ FindPeriod(etsData, period) = NULL
                   /\ FindPeriod(industryData, period) = NULL))
      merged == [r \in 1..Len(found) |->
                   LET period == found[r]
                       importEntry == FindPeriod(total, period)
                       etsEntry == FindPeriod(etsData, period)
                       industryEntry == FindPeriod(industryData, period)
                   IN  [year |-> period \div 12, month |-> (period % 12) + 1,
                        importQuantity_tons |-> FieldOrNull(importEntry, "totalQuantity_tons"),
                        importValue_eur |-> FieldOrNull(importEntry, "totalValue_eur"),
                        importUnitValue |-> FieldOrNull(importEntry, "unit_value"),
                        etsPrice |-> FieldOrNull(etsEntry, "price"),
                        industryIndex |-> FieldOrNull(industryEntry, "index")]]
  IN  SortByDate(merged)

\* prev && prev.v && entry.v ? ((entry.v - prev.v) / prev.v) * 100 : null,
\* prev being the row back rows before index (none when index <= back)
GrowthRate(data, index, back, field) ==
  IF index > back /\ Truthy(data[index - back][field]) /\ Truthy(data[index][field])
    THEN NumMul(NumDiv(NumSub(data[index][field], data[index - back][field]),
                       data[index - back][field]), Num(100))
  ELSE NULL

\* a missing value counted as 0: the mean over every row of the window
MovingAverageNullAsZero(data, index, size, field) ==
  LET from == IF index - size + 1 > 1 THEN index - size + 1 ELSE 1
      values == [j \in from..index |-> IF data[j][field] = NULL THEN Zero ELSE data[j][field]]
  IN  NumDiv(SumSeq([r \in 1..(index - from + 1) |-> values[from + r - 1]]),
             Num(index - from + 1))

\* mean of the non-null values of field in the rows index - size + 1 .. index
MovingAverage(data, index, size, field) ==
  LET from == IF index - size + 1 > 1 THEN index - size + 1 ELSE 1
      values == NonNull(SubSeq(data, from, index), field)
  IN  IF Len(values) > 0 THEN NumDiv(SumSeq(values), Num(Len(values))) ELSE NULL

calculateDerivedIndicators(data) ==
  [index \in 1..Len(data) |->
     DerivedEntry(data[index]) @@
     [importGrowth |-> GrowthRate(data, index, 1, "importQuantity_tons"),
      importGrowthYoY |-> GrowthRate(data, index, 12, "importQuantity_tons"),
      valueGrowth |-> GrowthRate(data, index, 1, "importValue_eur"),
      etsGrowth |-> GrowthRate(data, index, 1, "etsPrice"),
      etsMA3 |-> MovingAverage(data, index, 3, "etsPrice"),
      etsMA12 |-> MovingAverage(data, index, 12, "etsPrice"),
      importMA3 |-> MovingAverage(data, index, 3, "importQuantity_tons"),
      importMA12 |-> MovingAverage(data, index, 12, "importQuantity_tons")]]

-----------------------------------------------------------------------------
(* Input panels.  A panel is what the preprocessing hands to the dashboard: *)
(* one row per period in which some series has an observation, in date    *)
(* order.  Its periods are nPre months up to 2022-12, nWin months from     *)
(* 2023-01 and nAfter months from 2026-01; at most one row lacks one       *)
(* variable.  Values are powers of two, so that their logs are exact.      *)

PriceCycle == <<1, 1, 1, 2, 1, 1, 1>>
IndexCycle == <<2, 1, 1>>
ImportCycle == <<4, 2, 8, 2, 1>>

HoleVars == {"importQuantity_tons", "etsPrice", "industryIndex"}

\* the merged row of the period with time-axis position key; missing names
\* the variable whose series has no observation there ("" for none)
MergedEntry(key, missing) ==
  LET quantity == Num(ImportCycle[(key % Len(ImportCycle)) + 1])
      value == Num(2 * ImportCycle[(key % Len(ImportCycle)) + 1])
      hasImport == missing # "importQuantity_tons"
  IN  [year |-> key \div 12, month |-> (key % 12) + 1,
       importQuantity_tons |-> IF hasImport THEN quantity ELSE NULL,
       importValue_eur |-> IF hasImport THEN value ELSE NULL,
       importUnitValue |-> IF hasImport THEN NumDiv(value, quantity) ELSE NULL,
       etsPrice |-> IF missing # "etsPrice" THEN Num(PriceCycle[(key % Len(PriceCycle)) + 1]) ELSE NULL,
       industryIndex |-> IF missing # "industryIndex"
                           THEN Num(IndexCycle[(key % Len(IndexCycle)) + 1]) ELSE NULL]

PeriodKey(nPre, nWin, i) ==
  IF i <= nPre THEN 2023 * 12 - nPre + (i - 1)
  ELSE IF i <= nPre + nWin THEN 2023 * 12 + (i - nPre - 1)
  ELSE 2026 * 12 + (i - nPre - nWin - 1)

Panel(nPre, nWin, nAfter, holePos, holeVar) ==
  calculateDerivedIndicators(
    [i \in 1..(nPre + nWin + nAfter) |->
       MergedEntry(PeriodKey(nPre, nWin, i), IF i = holePos THEN holeVar ELSE "")])

Frequencies == {"monthly", "annual"}

-----------------------------------------------------------------------------
(* Input series.  Each of the three series observes a subset of the        *)
(* periods, once per period.  Observed values are positive powers of two,  *)
(* except in the period oddAt, where the import flows are 0 and price and  *)
(* index are oddValue (0 or negative).                                     *)

FirstPeriod == 2022 * 12 + 10

\* an entry of importsAggregated.total carries unit_value as aggregateImports
\* sets it
SeriesInput(importsAt, etsAt, industryAt, oddAt, oddValue) ==
  LET imports == SortPeriods(importsAt)
      ets == SortPeriods(etsAt)
      industry == SortPeriods(industryAt)
      quantity(i) == IF i = oddAt THEN Zero ELSE Num(Pow2(i + 1))
      value(i) == IF i = oddAt THEN Zero ELSE Num(3 * Pow2(i + 1))
  IN  [total |-> [r \in 1..Len(imports) |->
                    [yearMonth |-> FirstPeriod + imports[r] - 1,
                     totalQuantity_tons |-> quantity(imports[r]),
                     totalValue_eur |-> value(imports[r]),
                     unit_value |-> IF NumGt(quantity(imports[r]), Zero)
                                      THEN NumDiv(value(imports[r]), quantity(imports[r]))
                                      ELSE Zero]],
       etsData |-> [r \in 1..Len(ets) |->
                      [yearMonth |-> FirstPeriod + ets[r] - 1,
                       price |-> IF ets[r] = oddAt THEN oddValue ELSE Num(Pow2(ets[r]))]],
       industryData |-> [r \in 1..Len(industry) |->
                           [yearMonth |-> FirstPeriod + industry[r] - 1,
                            index |-> IF industry[r] = oddAt THEN oddValue
                                      ELSE Num(Pow2(industry[r] - 1))]]]

\* the same rows in the opposite order
Reversed(series) == [r \in 1..Len(series) |-> series[Len(series) + 1 - r]]

\* the panel a caller builds from the observations themselves: one row per
\* observed period in date order, each variable as observed, null without
\* an observation
ObservedValue(series, period, field) ==
  IF FindPeriod(series, period) = NULL THEN NULL ELSE FindPeriod(series, period)[field]

ObservedPanel(input) ==
  LET periods == SortPeriods({input.total[i].yearMonth : i \in 1..Len(input.total)}
                             \cup {input.etsData[i].yearMonth : i \in 1..Len(input.etsData)}
                             \cup {input.industryData[i].yearMonth :
                                     i \in 1..Len(input.industryData)})
  IN  [r \in 1..Len(periods) |->
         [year |-> periods[r] \div 12, month |-> (periods[r] % 12) + 1,
          importQuantity_tons |-> ObservedValue(input.total, periods[r], "totalQuantity_tons"),
          importValue_eur |-> ObservedValue(input.total, periods[r], "totalValue_eur"),
          importUnitValue |-> ObservedValue(input.total, periods[r], "unit_value"),
          etsPrice |-> ObservedValue(input.etsData, periods[r], "price"),
          industryIndex |-> ObservedValue(input.industryData, periods[r], "index")]]

\* the period of the series whose observations month p of a longer span repeats
BasePeriod(p) == FirstPeriod + ((p - 1) % MaxPeriods)

\* the caller's panel over MaxSpan months from the first period on: the
\* observations of the series repeat every MaxPeriods months, and a month in
\* which no series has an observation has no row
RepeatedPanel(input) ==
  LET observed == {input.total[i].yearMonth : i \in 1..Len(input.total)}
                  \cup {input.etsData[i].yearMonth : i \in 1..Len(input.etsData)}
                  \cup {input.industryData[i].yearMonth : i \in 1..Len(input.industryData)}
      months == SortPeriods({p \in 1..MaxSpan : BasePeriod(p) \in observed})
  IN  [r \in 1..Len(months) |->
         [year |-> (FirstPeriod + months[r] - 1) \div 12,
          month |-> ((FirstPeriod + months[r] - 1) % 12) + 1,
          importQuantity_tons |->
            ObservedValue(input.total, BasePeriod(months[r]), "totalQuantity_tons"),
          importValue_eur |->
            ObservedValue(input.total, BasePeriod(months[r]), "totalValue_eur"),
          importUnitValue |-> ObservedValue(input.total, BasePeriod(months[r]), "unit_value"),
          etsPrice |-> ObservedValue(input.etsData, BasePeriod(months[r]), "price"),
          industryIndex |->
            ObservedValue(input.industryData, BasePeriod(months[r]), "index")]]

\* the panel handed to calculateDerivedIndicators: what mergeDatasets
\* returned, or the caller's own panel, over the periods of the series or
\* over the longer span
SourcePanel(input, source) ==
  IF source = "merged" THEN mergeDatasets(input.total, input.etsData, input.industryData)
  ELSE IF source = "observed" THEN ObservedPanel(input)
  ELSE RepeatedPanel(input)

-----------------------------------------------------------------------------
(* Regression inputs: a dependent array y and one or two regressor arrays, *)
(* each of its own length, each with at most one null entry.  y is         *)
(* scattered, constant, or an exact line in the first regressor.           *)

YOfShape(shape) ==
  CASE shape = "scattered" -> <<1, 3, 2, 5, 4, 6>>
    [] shape = "constant" -> <<2, 2, 2, 2, 2, 2>>
    [] shape = "linear" -> <<3, 5, 7, 9, 11, 13>>

\* the first len of values as numbers, null at position hole
NumberArray(values, len, hole) ==
  [i \in 1..len |-> IF i = hole THEN NULL ELSE Num(values[i])]

RegressionInput(shape, ny, yHole, n1, x1Hole, n2) ==
  LET x1 == NumberArray(<<1, 2, 3, 4, 5, 6>>, n1, x1Hole)
      x2 == NumberArray(<<1, 0, 0, 1, 0, 1>>, n2, 0)
  IN  [y |-> NumberArray(YOfShape(shape), ny, yHole),
       x |-> IF n2 < 0 THEN <<x1>> ELSE <<x1, x2>>]

-----------------------------------------------------------------------------
(* The state machine.  mergedData is the loaded panel, dashboard the       *)
(* results the analysis effect stored, call a direct call of an exported   *)
(* function with its result, arg the input of a stand-alone gate query.    *)
(* history is the first call a caller made, with the arguments as they     *)
(* were passed, kept where later calls are compared with it.               *)
(* Spec has a caller apply the exported functions to the panel one call at *)
(* a time; SpecDashboard has the dashboard run its analysis effect on it.  *)

Idle == [op |-> "idle"]
NoArg == [n |-> 0]
NoHistory == [calls |-> 0]

Init ==
  /\ \E nPre \in 0..MaxPre, nWin \in 0..MaxWin, nAfter \in 0..MaxAfter,
        holePos \in 0..MaxHolePos, holeVar \in HoleVars :
       mergedData = Panel(nPre, nWin, nAfter, holePos, holeVar)
  /\ dashboard = NotAnalysed
  /\ arg = NoArg
  /\ call = Idle
  /\ history = NoHistory

RunAnalysisEffect ==
  /\ dashboard = NotAnalysed
  /\ Len(mergedData) > 0
  /\ \E prepared \in {prepareDataset(mergedData)} :
       dashboard' = AnalysisEffect(prepared)
  /\ UNCHANGED <<mergedData, arg, call, history>>

CallPrepareDataset ==
  /\ call = Idle
  /\ call' = [op |-> "prepareDataset",
              result |-> prepareDataset(mergedData)]
  /\ UNCHANGED <<mergedData, dashboard, arg, history>>

CallCheckCBAMFeasibility ==
  /\ call = Idle
  /\ call' = [op |-> "checkCBAMFeasibility",
              result |-> checkCBAMFeasibility(mergedData)]
  /\ UNCHANGED <<mergedData, dashboard, arg, history>>

CallCalculateCBAMDescriptive ==
  /\ call = Idle
  /\ call' = [op |-> "calculateCBAMDescriptive",
              result |-> calculateCBAMDescriptive(mergedData)]
  /\ UNCHANGED <<mergedData, dashboard, arg, history>>

CallEstimateBaselineModel ==
  /\ call = Idle
  /\ \E frequency \in Frequencies :
       call' = [op |-> "estimateBaselineModel",
                frequency |-> frequency,
                result |-> estimateBaselineModel(mergedData, frequency)]
  /\ UNCHANGED <<mergedData, dashboard, arg, history>>

CallEstimateLaggedModel ==
  /\ call = Idle
  /\ \E requestedMaxLags \in 0..MaxReqLags, frequency \in Frequencies :
       call' = [op |-> "estimateLaggedModel",
                requestedMaxLags |-> requestedMaxLags, frequency |-> frequency,
                result |-> estimateLaggedModel(mergedData, requestedMaxLags, frequency)]
  /\ UNCHANGED <<mergedData, dashboard, arg, history>>

CallEstimateCBAMInteractionModel ==
  /\ call = Idle
  /\ \E frequency \in Frequencies :
       call' = [op |-> "estimateCBAMInteractionModel",
                frequency |-> frequency,
                result |-> estimateCBAMInteractionModel(mergedData, frequency)]
  /\ UNCHANGED <<mergedData, dashboard, arg, history>>

CallEstimateElasticity ==
  /\ call = Idle
  /\ \E useLags \in BOOLEAN :
       call' = [op |-> "estimateElasticity", useLags |-> useLags,
                threw |-> ElasticityThrows(mergedData, useLags, 3),
                result |-> estimateElasticity(mergedData, useLags, 3)]
  /\ UNCHANGED <<mergedData, dashboard, arg, history>>

CallCalculateSummaryStats ==
  /\ call = Idle
  /\ \E variableName \in SummaryVariables \cup {"date"} :
       call' = [op |-> "calculateSummaryStats", variableName |-> variableName,
                result |-> calculateSummaryStats(mergedData, variableName)]
  /\ UNCHANGED <<mergedData, dashboard, arg, history>>

\* the gate is asked about the row count of the panel (as the dashboard
\* does) or about a stand-alone sample size
CallDetermineFeasibleLagLength ==
  /\ call = Idle
  /\ \E n \in {Len(mergedData), arg.n}, frequency \in Frequencies :
       call' = [op |-> "determineFeasibleLagLength", n |-> n,
                frequency |-> frequency,
                result |-> determineFeasibleLagLength(n, frequency, 3)]
  /\ UNCHANGED <<mergedData, dashboard, arg, history>>

\* the caller has consumed the result
Return ==
  /\ call # Idle
  /\ call' = Idle
  /\ UNCHANGED <<mergedData, dashboard, arg, history>>

Next ==
  \/ CallPrepareDataset
  \/ CallDetermineFeasibleLagLength
  \/ CallCheckCBAMFeasibility
  \/ CallCalculateCBAMDescriptive
  \/ CallEstimateBaselineModel
  \/ CallEstimateLaggedModel
  \/ CallEstimateCBAMInteractionModel
  \/ Return

Spec == Init /\ [][Next]_vars

SpecDashboard == Init /\ [][RunAnalysisEffect]_vars

-----------------------------------------------------------------------------
(* SpecCalls has a caller apply every exported function of the analysis,   *)
(* the legacy estimates and the summary statistics included, to a panel of *)
(* any number of months before 2023, with or without the months of the     *)
(* window and after it                                                     *)

InitCalls ==
  /\ \E nPre \in 0..MaxPre, nWin \in {0, MaxWin}, nAfter \in {0, MaxAfter},
        holePos \in 0..MaxHolePos, holeVar \in HoleVars :
       mergedData = Panel(nPre, nWin, nAfter, holePos, holeVar)
  /\ dashboard = NotAnalysed
  /\ arg = NoArg
  /\ call = Idle
  /\ history = NoHistory

NextCalls ==
  \/ CallPrepareDataset
  \/ CallDetermineFeasibleLagLength
  \/ CallCheckCBAMFeasibility
  \/ CallCalculateCBAMDescriptive
  \/ CallEstimateBaselineModel
  \/ CallEstimateLaggedModel
  \/ CallEstimateCBAMInteractionModel
  \/ CallEstimateElasticity
  \/ CallCalculateSummaryStats
  \/ Return

SpecCalls == InitCalls /\ [][NextCalls]_vars

-----------------------------------------------------------------------------
(* SpecMonthlyLags: the lagged model requested as the analysis effect      *)
(* requests it, with the lag counts the gate allows for the panel's row    *)
(* count, on monthly panels of up to MaxN rows, all of them before 2023.   *)
(* The regression that follows the sample checks is not evaluated on these *)
(* panels (up to 15 unknowns on up to MaxN rows); the call record holds    *)
(* what the sample checks return.                                          *)

InitMonthlyLags ==
  /\ \E n \in 0..MaxN, holePos \in 0..MaxHolePos, holeVar \in HoleVars :
       mergedData = Panel(n, 0, 0, holePos, holeVar)
  /\ dashboard = NotAnalysed
  /\ arg = NoArg
  /\ call = Idle
  /\ history = NoHistory

CallEstimateLaggedModelAsGated ==
  /\ call = Idle
  /\ \E lagInfo \in {determineFeasibleLagLength(Len(mergedData), "monthly", 3)} :
       /\ lagInfo.feasible /\ lagInfo.maxLag >= 1
       /\ \E requestedMaxLags \in {Min(6, lagInfo.maxLag)}
                                    \cup {k \in {12} : lagInfo.maxLag >= 12} :
            call' = [op |-> "estimateLaggedModel",
                     requestedMaxLags |-> requestedMaxLags, frequency |-> "monthly",
                     lagInfo |-> lagInfo,
                     result |-> LaggedSampleChecks(mergedData, requestedMaxLags, "monthly")]
  /\ UNCHANGED <<mergedData, dashboard, arg, history>>

NextMonthlyLags ==
  \/ CallDetermineFeasibleLagLength
  \/ CallEstimateLaggedModelAsGated
  \/ Return

SpecMonthlyLags == InitMonthlyLags /\ [][NextMonthlyLags]_vars

-----------------------------------------------------------------------------
(* Stand-alone queries of the lag-length gate, for sample sizes beyond the *)
(* panels above                                                            *)

InitGate ==
  /\ mergedData = <<>>
  /\ dashboard = NotAnalysed
  /\ arg \in [n : 0..MaxN]
  /\ call = Idle
  /\ history = NoHistory

NextGate ==
  \/ CallDetermineFeasibleLagLength
  \/ Return

SpecGate == InitGate /\ [][NextGate]_vars

-----------------------------------------------------------------------------
(* Preprocessing calls: the series are merged, and derived indicators and  *)
(* annual aggregates are computed from a panel                             *)

InitPreprocess ==
  /\ mergedData = <<>>
  /\ dashboard = NotAnalysed
  /\ \E importsAt \in SUBSET (1..MaxPeriods), etsAt \in SUBSET (1..MaxPeriods),
        industryAt \in SUBSET (1..MaxPeriods), oddAt \in 0..MaxPeriods,
        oddValue \in {Num(0), Num(-2)} :
       arg = SeriesInput(importsAt, etsAt, industryAt, oddAt, oddValue)
  /\ call = Idle
  /\ history = NoHistory

CallMergeDatasets ==
  /\ call = Idle
  /\ \E reversed \in BOOLEAN :
       call' = [op |-> "mergeDatasets", reversed |-> reversed,
                result |-> IF reversed
                             THEN mergeDatasets(Reversed(arg.total), Reversed(arg.etsData),
                                                Reversed(arg.industryData))
                             ELSE mergeDatasets(arg.total, arg.etsData, arg.industryData)]
  /\ UNCHANGED <<mergedData, dashboard, arg, history>>

CallCalculateDerivedIndicators ==
  /\ call = Idle
  /\ \E source \in {"merged", "observed"} :
       call' = [op |-> "calculateDerivedIndicators", source |-> source,
                result |-> calculateDerivedIndicators(SourcePanel(arg, source))]
  /\ UNCHANGED <<mergedData, dashboard, arg, history>>

CallAggregateToAnnual ==
  /\ call = Idle
  /\ \E source \in {"merged", "observed"} :
       call' = [op |-> "aggregateToAnnual", source |-> source,
                result |-> aggregateToAnnual(
                             calculateDerivedIndicators(SourcePanel(arg, source)))]
  /\ UNCHANGED <<mergedData, dashboard, arg, history>>

NextPreprocess ==
  \/ CallMergeDatasets
  \/ CallCalculateDerivedIndicators
  \/ CallAggregateToAnnual
  \/ Return

SpecPreprocess == InitPreprocess /\ [][NextPreprocess]_vars

-----------------------------------------------------------------------------
(* Derived indicators of a panel longer than the moving-average windows *)

InitIndicators ==
  /\ mergedData = <<>>
  /\ dashboard = NotAnalysed
  /\ \E importsAt \in SUBSET (1..MaxPeriods), etsAt \in SUBSET (1..MaxPeriods),
        industryAt \in SUBSET (1..MaxPeriods), oddAt \in 0..MaxPeriods :
       arg = SeriesInput(importsAt, etsAt, industryAt, oddAt, Zero)
  /\ call = Idle
  /\ history = NoHistory

CallCalculateDerivedIndicatorsOnSpan ==
  /\ call = Idle
  /\ call' = [op |-> "calculateDerivedIndicators", source |-> "repeated",
              result |-> calculateDerivedIndicators(SourcePanel(arg, "repeated"))]
  /\ UNCHANGED <<mergedData, dashboard, arg, history>>

NextIndicators ==
  \/ CallCalculateDerivedIndicatorsOnSpan
  \/ Return

SpecIndicators == InitIndicators /\ [][NextIndicators]_vars

-----------------------------------------------------------------------------
(* Direct calls of the two regression routines *)

InitOLS ==
  /\ mergedData = <<>>
  /\ dashboard = NotAnalysed
  /\ \E shape \in {"scattered", "constant", "linear"}, ny \in 0..MaxObs, yHole \in 0..MaxHolePos, n1 \in 0..MaxObs,
        x1Hole \in 0..MaxHolePos,
        n2 \in -1..MaxObs :
       arg = RegressionInput(shape, ny, yHole, n1, x1Hole, n2)
  /\ call = Idle
  /\ history = NoHistory

CallSimpleOLS ==
  /\ call = Idle
  /\ call' = [op |-> "simpleOLS", result |-> simpleOLS(arg.y, arg.x[1])]
  /\ UNCHANGED <<mergedData, dashboard, arg, history>>

CallMultipleOLS ==
  /\ call = Idle
  /\ call' = [op |-> "multipleOLS", result |-> multipleOLS(arg.y, arg.x)]
  /\ UNCHANGED <<mergedData, dashboard, arg, history>>

NextOLS ==
  \/ CallSimpleOLS
  \/ CallMultipleOLS
  \/ Return

SpecOLS == InitOLS /\ [][NextOLS]_vars

-----------------------------------------------------------------------------
(* SpecImports: aggregateImports on up to MaxEntries import entries, each  *)
(* a flow of one of two partner countries in one of two months; one entry  *)
(* may carry no yearMonth, only its date.                                  *)

\* an entry has a month, a partner country and a flow (quantity in tons,
\* value in EUR)
InitImports ==
  /\ mergedData = <<>>
  /\ dashboard = NotAnalysed
  /\ \E len \in 0..MaxEntries, noKeyAt \in 0..1 :
       \E choice \in [1..len -> {FirstPeriod, FirstPeriod + 1} \X {"CN", "TR"}
                                   \X {<<0, 0>>, <<1, 3>>, <<2, 5>>}] :
         arg = [importsData |->
                  [i \in 1..len |->
                     (IF i # noKeyAt THEN [yearMonth |-> choice[i][1]] ELSE <<>>) @@
                     [date |-> [year |-> choice[i][1] \div 12,
                                month |-> (choice[i][1] % 12) + 1],
                      partnerCountry |-> choice[i][2],
                      quantity_tons |-> Num(choice[i][3][1]),
                      value_eur |-> Num(choice[i][3][2])]]]
  /\ call = Idle
  /\ history = NoHistory

CallAggregateImports ==
  /\ call = Idle
  /\ call' = [op |-> "aggregateImports", result |-> aggregateImports(arg.importsData)]
  /\ UNCHANGED <<mergedData, dashboard, arg, history>>

NextImports ==
  \/ CallAggregateImports
  \/ Return

SpecImports == InitImports /\ [][NextImports]_vars

-----------------------------------------------------------------------------
(* Repeated calls on shared arguments.  The caller keeps one panel, one    *)
(* set of series, one pair of regression arrays and one linear system, and *)
(* passes the same objects to every call; what a call leaves in them is    *)
(* what the next call receives.                                            *)

\* elimination on the rows of A themselves
solveLinearSystemInPlace(A, b) ==
  LET augmented == [i \in 1..Len(A) |-> Append(A[i], b[i])]
      eliminated == ForwardEliminate(augmented, 1)
  IN  [A |-> [i \in 1..Len(A) |-> SubSeq(eliminated[i], 1, Len(A))], b |-> b]

\* A and b after solveLinearSystem(A, b): augmented is A.map((row, i) =>
\* [...row, b[i]]), fresh rows, so the swaps and the elimination reach neither
solveLinearSystemLeaves(A, b) == [A |-> A, b |-> b]

\* the series after mergeDatasets: the sorts act on Array.from(allPeriods)
\* and on merged, both built inside
mergeDatasetsLeaves(total, etsData, industryData) ==
  [total |-> total, etsData |-> etsData, industryData |-> industryData]

\* the panel after aggregateToAnnual: the pushes fill the arrays of annualMap
\* and the sort orders the mapped array
aggregateToAnnualLeaves(data) == data

\* the panel after calculateCBAMDescriptive: calcStats sorts imports and
\* prices, arrays that map and filter built
calculateCBAMDescriptiveLeaves(data) == data

\* the panel and the inputs after a call; prepareDataset,
\* calculateDerivedIndicators, multipleOLS and the estimators assign to no
\* element of their parameters
InputsAfter(request, data, input) ==
  CASE request.op = "solveLinearSystem" ->
         [data |-> data, input |-> solveLinearSystemLeaves(input.A, input.b) @@ input]
    [] request.op = "mergeDatasets" ->
         [data |-> data,
          input |-> mergeDatasetsLeaves(input.total, input.etsData, input.industryData)
                    @@ input]
    [] request.op = "aggregateToAnnual" ->
         [data |-> aggregateToAnnualLeaves(data), input |-> input]
    [] request.op = "calculateCBAMDescriptive" ->
         [data |-> calculateCBAMDescriptiveLeaves(data), input |-> input]
    [] OTHER -> [data |-> data, input |-> input]

InitPurity ==
  /\ \E nPre \in {MaxPre - 10, MaxPre}, nWin \in {0, MaxWin}, nAfter \in {MaxAfter},
        holePos \in 0..MaxHolePos, holeVar \in HoleVars :
       mergedData = Panel(nPre, nWin, nAfter, holePos, holeVar)
  /\ dashboard = NotAnalysed
  /\ \E system \in
          {[A |-> <<<<Num(1), Num(2)>>, <<Num(3), Num(4)>>>>, b |-> <<Num(5), Num(6)>>],
           [A |-> <<<<Num(4), Num(2)>>, <<Num(2), Num(3)>>>>, b |-> <<Num(2), Num(5)>>]} :
       arg = system
             @@ SeriesInput(1..MaxPeriods, 1..MaxPeriods, 2..MaxPeriods, 0, Zero)
             @@ RegressionInput("scattered", MaxObs, 0, MaxObs, 0, MaxObs)
  /\ call = Idle
  /\ history = NoHistory

\* the rest of a call: the arguments are left as the function leaves them,
\* and the first call of a caller is kept in history
Served ==
  /\ history.calls < MaxCalls
  /\ \E after \in {InputsAfter(call'.request, mergedData, arg)} :
       /\ mergedData' = after.data
       /\ arg' = after.input
  /\ history' = IF history.calls = 0
                  THEN [calls |-> 1, request |-> call'.request, result |-> call'.result,
                        mergedData |-> mergedData, arg |-> arg]
                  ELSE [history EXCEPT !.calls = @ + 1]
  /\ UNCHANGED dashboard

InvokeMergeDatasets ==
  /\ call = Idle
  /\ call' = [op |-> "mergeDatasets", request |-> [op |-> "mergeDatasets"],
              result |-> mergeDatasets(arg.total, arg.etsData, arg.industryData)]
  /\ Served

InvokeCalculateDerivedIndicators ==
  /\ call = Idle
  /\ call' = [op |-> "calculateDerivedIndicators", request |-> [op |-> "calculateDerivedIndicators"],
              result |-> calculateDerivedIndicators(ObservedPanel(arg))]
  /\ Served

InvokeAggregateToAnnual ==
  /\ call = Idle
  /\ call' = [op |-> "aggregateToAnnual", request |-> [op |-> "aggregateToAnnual"],
              result |-> aggregateToAnnual(mergedData)]
  /\ Served

InvokePrepareDataset ==
  /\ call = Idle
  /\ call' = [op |-> "prepareDataset", request |-> [op |-> "prepareDataset"],
              result |-> prepareDataset(mergedData)]
  /\ Served

InvokeCalculateCBAMDescriptive ==
  /\ call = Idle
  /\ call' = [op |-> "calculateCBAMDescriptive", request |-> [op |-> "calculateCBAMDescriptive"],
              result |-> calculateCBAMDescriptive(mergedData)]
  /\ Served

InvokeMultipleOLS ==
  /\ call = Idle
  /\ call' = [op |-> "multipleOLS", request |-> [op |-> "multipleOLS"],
              result |-> multipleOLS(arg.y, arg.x)]
  /\ Served

InvokeSolveLinearSystem ==
  /\ call = Idle
  /\ call' = [op |-> "solveLinearSystem", request |-> [op |-> "solveLinearSystem"],
              result |-> solveLinearSystem(arg.A, arg.b)]
  /\ Served

InvokeEstimateBaselineModel ==
  /\ call = Idle
  /\ \E frequency \in Frequencies :
       call' = [op |-> "estimateBaselineModel",
                request |-> [op |-> "estimateBaselineModel", frequency |-> frequency],
                result |-> estimateBaselineModel(mergedData, frequency)]
  /\ Served

InvokeEstimateLaggedModel ==
  /\ call = Idle
  /\ \E requestedMaxLags \in {0, MaxReqLags}, frequency \in Frequencies :
       call' = [op |-> "estimateLaggedModel",
                request |-> [op |-> "estimateLaggedModel",
                            requestedMaxLags |-> requestedMaxLags,
                            frequency |-> frequency],
                result |-> estimateLaggedModel(mergedData, requestedMaxLags, frequency)]
  /\ Served

InvokeEstimateCBAMInteractionModel ==
  /\ call = Idle
  /\ \E frequency \in Frequencies :
       call' = [op |-> "estimateCBAMInteractionModel",
                request |-> [op |-> "estimateCBAMInteractionModel", frequency |-> frequency],
                result |-> estimateCBAMInteractionModel(mergedData, frequency)]
  /\ Served

NextPurity ==
  \/ InvokeMergeDatasets
  \/ InvokeCalculateDerivedIndicators
  \/ InvokeAggregateToAnnual
  \/ InvokePrepareDataset
  \/ InvokeCalculateCBAMDescriptive
  \/ InvokeMultipleOLS
  \/ InvokeSolveLinearSystem
  \/ InvokeEstimateBaselineModel
  \/ InvokeEstimateLaggedModel
  \/ InvokeEstimateCBAMInteractionModel
  \/ Return

SpecPurity == InitPurity /\ [][NextPurity]_vars

-----------------------------------------------------------------------------
(* Properties of the lag-length gate *)

IsGateCall == call.op = "determineFeasibleLagLength"

\* the largest k with n >= 10 + (k + 1) + 1, for n >= 12
LargestK(n) == CHOOSE k \in 0..n : n >= 10 + (k + 1) + 1 /\ ~(n >= 10 + (k + 2) + 1)

\* C6 as stated: for monthly frequency and n >= 20 the gate's maxLag is the
\* largest k with n >= 10 + (k + 1) + 1, capped at 3 below 50 observations and
\* at 6 below 100, with no cap from 100 observations on.
C6_UncappedAbove100 ==
  (IsGateCall /\ call.frequency = "monthly" /\ call.n >= 20) =>
    call.result.maxLag = IF call.n < 50 THEN Min(LargestK(call.n), 3)
                         ELSE IF call.n < 100 THEN Min(LargestK(call.n), 6)
                         ELSE LargestK(call.n)

\* C6 amended: as above, but from 100 observations on the lag is capped at 12,
\* the last k the gate's loop tries.
C6_MonthlyMaxLag ==
  (IsGateCall /\ call.frequency = "monthly" /\ call.n >= 20) =>
    call.result.maxLag = IF call.n < 50 THEN Min(LargestK(call.n), 3)
                         ELSE IF call.n < 100 THEN Min(LargestK(call.n), 6)
                         ELSE Min(LargestK(call.n), 12)

C6_Witness ==
  IsGateCall /\ call.frequency = "monthly" /\ call.n >= 100 /\ call.result.maxLag = 12

\* C7: for monthly frequency the gate answers feasible = false with maxLag 0
\* up to 19 observations and feasible = true with maxLag >= 1 from 20 on; in
\* every verdict, of either frequency, feasible is true exactly when maxLag > 0.
C7_BoundaryAt20 ==
  IsGateCall =>
    /\ call.result.feasible <=> call.result.maxLag > 0
    /\ (call.frequency = "monthly" /\ call.n <= 19) =>
         (~call.result.feasible /\ call.result.maxLag = 0)
    /\ (call.frequency = "monthly" /\ call.n >= 20) =>
         (call.result.feasible /\ call.result.maxLag >= 1)

C7_Witness ==
  IsGateCall /\ call.frequency = "monthly" /\ call.n = 20 /\ call.result.feasible

-----------------------------------------------------------------------------
(* Properties of the estimators and of the interaction gate *)

IsBaselineCall == call.op = "estimateBaselineModel"
IsLaggedCall == call.op = "estimateLaggedModel"
IsInteractionCall == call.op = "estimateCBAMInteractionModel"
IsEstimatorCall == IsBaselineCall \/ IsLaggedCall \/ IsInteractionCall

\* the lag count a lagged result used: maxLags when feasible, else the
\* requestedMaxLags it echoes
ReportedK(result) ==
  IF result.feasible THEN result.maxLags ELSE result.requestedMaxLags

\* rows of the panel before 2023, and within 2023..2025
PreCount == Cardinality({i \in 1..Len(mergedData) : mergedData[i].year < 2023})
PostCount ==
  Cardinality({i \in 1..Len(mergedData) :
                 mergedData[i].year >= 2023 /\ mergedData[i].year <= 2025})
AfterCount == Cardinality({i \in 1..Len(mergedData) : mergedData[i].year > 2025})

InteractionGateMet == PreCount >= 10 /\ PostCount >= 5

\* C1: an estimator result with feasible = true rests on at least 20
\* observations.
C1_MinimumSampleGate ==
  (IsEstimatorCall /\ call.result # NullResult /\ call.result.feasible) =>
    call.result.n >= 20

\* C2: the lag count of a feasible lagged result never exceeds the maxLag the
\* gate approves for the panel's count of complete observations.
C2_LagWithinGate ==
  (IsLaggedCall /\ call.result # NullResult /\ call.result.feasible) =>
    call.result.maxLags
      <= determineFeasibleLagLength(LaggedN(mergedData), call.frequency, 3).maxLag

\* the coefficients a feasible estimator result reports
ReportedCoefficients(result) ==
  IF "lagCoefficients" \in DOMAIN result
    THEN {result.intercept, result.activityCoeff}
         \cup {result.lagCoefficients[k].coefficient : k \in 1..Len(result.lagCoefficients)}
  ELSE IF "cbamCoeff" \in DOMAIN result
    THEN {result.intercept, result.carbonPriceCoeff, result.activityCoeff, result.cbamCoeff}
  ELSE {result.intercept, result.carbonPriceCoeff, result.activityCoeff,
        result.cbamInteractionCoeff}

\* C3: a singular normal-equation system is reported as a non-estimable
\* outcome: no feasible result carries coefficients obtained by dividing by a
\* zero pivot, that is, every coefficient of a feasible result is a finite number.
C3_SingularSystemRejected ==
  (IsEstimatorCall /\ call.result # NullResult /\ call.result.feasible) =>
    \A c \in ReportedCoefficients(call.result) : IsFinite(c)

C8_AnnualLagCap ==
  /\ (IsGateCall /\ call.frequency = "annual") =>
       /\ call.result.maxLag \in {0, 1}
       /\ \A n \in 0..MaxN : determineFeasibleLagLength(n, "annual", 3).maxLag \in {0, 1}
  /\ (IsLaggedCall /\ call.frequency = "annual") =>
       /\ call.result # NullResult
       /\ ReportedK(call.result) = Min(call.requestedMaxLags, 1)
       /\ call.result.feasible =>
            Len(call.result.lagCoefficients) = Min(call.requestedMaxLags, 1) + 1

C8_Witness ==
  /\ IsLaggedCall /\ call.frequency = "annual" /\ call.requestedMaxLags = 2
  /\ call.result.feasible /\ call.result.maxLags = 1

\* rows on either side of 2023 that carry both an import quantity and a price
UsablePre ==
  Cardinality({i \in 1..Len(mergedData) :
                 /\ mergedData[i].year < 2023
                 /\ mergedData[i].importQuantity_tons # NULL
                 /\ mergedData[i].etsPrice # NULL})
UsablePost ==
  Cardinality({i \in 1..Len(mergedData) :
                 /\ mergedData[i].year >= 2023 /\ mergedData[i].year <= 2025
                 /\ mergedData[i].importQuantity_tons # NULL
                 /\ mergedData[i].etsPrice # NULL})

IsDescriptiveCall == call.op = "calculateCBAMDescriptive"
GateFailsOnPanel == Len(mergedData) > 0 /\ ~InteractionGateMet

CompleteRows ==
  SelectSeq(mergedData, LAMBDA d :
    /\ d.importQuantity_tons # NULL /\ d.etsPrice # NULL /\ d.industryIndex # NULL
    /\ d.logImport # NULL /\ d.logETS # NULL /\ d.logIndustry # NULL)

CompleteCount == Len(CompleteRows)

\* C9: with c the number of complete panel rows, prepareDataset answers
\* 'none' with empty data iff c = 0, 'annual' with the annual aggregation of
\* the complete rows iff 1 <= c <= 19 (overlap recomputed on the annual panel),
\* and 'monthly' with exactly the complete rows iff c >= 20.
C9_FrequencySelection ==
  call.op = "prepareDataset" =>
    /\ call.result.frequency \in {"none", "annual", "monthly"}
    /\ call.result.frequency = "none" <=> CompleteCount = 0
    /\ call.result.frequency = "annual" <=> (1 <= CompleteCount /\ CompleteCount <= 19)
    /\ call.result.frequency = "monthly" <=> CompleteCount >= 20
    /\ call.result.frequency = "none" => call.result.data = <<>>
    /\ call.result.frequency = "monthly" =>
         (call.result.data = CompleteRows /\ call.result.overlap.count = CompleteCount)
    /\ call.result.frequency = "annual" =>
         /\ call.result.data = aggregateToAnnual(CompleteRows)
         /\ Len(call.result.data) = Cardinality({CompleteRows[i].year : i \in 1..CompleteCount})
         /\ call.result.overlap = detectOverlappingPeriod(call.result.data)
         /\ call.result.overlap.count <= Len(call.result.data)

C9_Witness ==
  /\ call.op = "prepareDataset"
  /\ call.result.frequency = "annual"
  /\ CompleteCount < Len(mergedData)
  /\ Len(call.result.data) >= 2

EstimateFields ==
  {"intercept", "lagCoefficients", "coefficients", "standardErrors", "tStats", "pValues",
   "carbonPriceCoeff", "carbonPriceSE", "carbonPriceTStat", "carbonPricePValue",
   "activityCoeff", "activitySE", "activityTStat", "activityPValue",
   "cbamCoeff", "cbamSE", "cbamTStat", "cbamPValue",
   "cbamInteractionCoeff", "cbamInteractionSE", "cbamInteractionTStat",
   "cbamInteractionPValue"}

\* C10: every estimator returns a result record, never null; a result with
\* feasible = false has a non-empty reason and no coefficient, standard-error,
\* t-statistic or p-value field.
C10_ResultShape ==
  IsEstimatorCall =>
    /\ call.result # NullResult
    /\ "feasible" \in DOMAIN call.result
    /\ ~call.result.feasible =>
         /\ "reason" \in DOMAIN call.result
         /\ call.result.reason # ""
         /\ DOMAIN call.result \cap EstimateFields = {}

C10_Witness ==
  /\ IsLaggedCall
  /\ ~call.result.feasible
  /\ call.result.reason = "Insufficient aligned observations (N < required)"

\* the operations that return a record (null is the record NullResult)
RecordOps ==
  {"prepareDataset", "determineFeasibleLagLength", "checkCBAMFeasibility",
   "calculateCBAMDescriptive", "estimateBaselineModel", "estimateLaggedModel",
   "estimateCBAMInteractionModel", "calculateSummaryStats"}

\* C22: on every panel, empty or with a missing variable, each call of
\* prepareDataset, determineFeasibleLagLength, checkCBAMFeasibility,
\* calculateCBAMDescriptive, the three estimators (with a lag count K >= 0),
\* estimateElasticity and calculateSummaryStats returns a value: none ends in
\* the TypeError that transpose throws on a design matrix without rows.
C22_NoPathThrows ==
  /\ call.op \in RecordOps => call.result # TypeError
  /\ call.op = "estimateElasticity" => ~call.threw

\* the lagged estimator has returned its verdict on the empty panel
C22_Witness ==
  /\ call.op = "estimateLaggedModel"
  /\ Len(mergedData) = 0
  /\ call.result # TypeError
  /\ call.result.feasible = FALSE

-----------------------------------------------------------------------------
(* Properties of the preprocessing *)

IsMergeCall == call.op = "mergeDatasets"

\* the periods a series has an observation for
SeriesPeriods(series) == {series[i].yearMonth : i \in 1..Len(series)}

ObservedPeriods ==
  SeriesPeriods(arg.total) \cup SeriesPeriods(arg.etsData) \cup SeriesPeriods(arg.industryData)

\* the period of a panel row
RowPeriod(row) == row.year * 12 + row.month - 1

\* the years whose observed import quantities are all 0, at least one observed
ZeroFlowYears ==
  {y \in {ObservedPanel(arg)[i].year : i \in 1..Len(ObservedPanel(arg))} :
     /\ \E i \in 1..Len(ObservedPanel(arg)) :
          ObservedPanel(arg)[i].year = y /\ ObservedPanel(arg)[i].importQuantity_tons = Zero
     /\ \A i \in 1..Len(ObservedPanel(arg)) :
          ObservedPanel(arg)[i].year = y =>
            ObservedPanel(arg)[i].importQuantity_tons \in {NULL, Zero}}

\* C11: the merged row of a period holds each variable as its series observed
\* it, 0 included, and null only where the series has no observation; a year
\* whose observed import quantities sum to 0 is aggregated to 0, not null.
C11_ZeroStaysDistinctFromMissing ==
  /\ IsMergeCall => call.result = ObservedPanel(arg)
  /\ (call.op = "aggregateToAnnual" /\ call.source = "observed") =>
       \A r \in 1..Len(call.result) :
         call.result[r].year \in ZeroFlowYears => call.result[r].importQuantity_tons = Zero

\* C12: the periods of the panel returned by mergeDatasets are exactly the
\* union of the periods of the three series.
C12_PeriodsAreTheUnion ==
  IsMergeCall =>
    {RowPeriod(call.result[r]) : r \in 1..Len(call.result)} = ObservedPeriods

C12_Witness ==
  /\ IsMergeCall
  /\ \E p \in ObservedPeriods :
       /\ p \in SeriesPeriods(arg.etsData)
       /\ p \notin SeriesPeriods(arg.total) \cup SeriesPeriods(arg.industryData)
       /\ \E r \in 1..Len(call.result) : RowPeriod(call.result[r]) = p
  /\ \E i \in 1..MaxPeriods : FirstPeriod + i - 1 \notin ObservedPeriods
  /\ Len(call.result) >= 2

\* the rearrangements of a series
Rearrangements(series) ==
  {[r \in 1..Len(series) |-> series[f[r]]] :
     f \in {g \in [1..Len(series) -> 1..Len(series)] :
              \A a, b \in 1..Len(series) : g[a] = g[b] => a = b}}

-----------------------------------------------------------------------------
(* Properties of the lagged sample *)

\* the positions of the panel rows that have log import and log activity and
\* a positive carbon price in the row itself and in each of the K rows before
IncludedRows(data, K) ==
  {i \in (K + 1)..Len(data) :
     /\ data[i].logImport # NULL /\ ~IsNaN(data[i].logImport)
     /\ data[i].logIndustry # NULL /\ ~IsNaN(data[i].logIndustry)
     /\ \A k \in 0..K :
          /\ data[i - k].etsPrice # NULL
          /\ ~IsNaN(data[i - k].etsPrice)
          /\ NumGt(data[i - k].etsPrice, Zero)}

\* C14: the lagged model uses exactly the rows whose log import and log
\* activity are present and whose carbon price is present and positive in the
\* row and in every one of the K rows before it; the n it reports is the
\* number of those rows.
C14_StrictCompleteCase ==
  (IsLaggedCall /\ call.result # NullResult /\ call.result.feasible) =>
    LET K == call.result.maxLags
        included == SortPeriods(IncludedRows(mergedData, K))
        aligned == alignDataWithLags(mergedData, K)
    IN  /\ call.result.n = Len(included)
        /\ Len(aligned.y) = Len(included)
        /\ \A r \in 1..Len(included) :
             /\ aligned.y[r] = mergedData[included[r]].logImport
             /\ aligned.activity[r] = mergedData[included[r]].logIndustry

C14_Witness ==
  /\ IsLaggedCall /\ call.result.feasible
  /\ call.result.maxLags = 2
  /\ mergedData[2].etsPrice = NULL
  /\ call.result.n = Len(mergedData) - 4

\* the rows in which the lag regressors are looked up by calendar period: the
\* loaded monthly panel, or the annual panel when the analysis runs on it
CalendarRows ==
  IF dashboard.dataFrequency = "annual" THEN dashboard.preparedData.data ELSE mergedData

\* months between consecutive periods of the analysed panel
PeriodStep == IF dashboard.dataFrequency = "annual" THEN 12 ELSE 1

\* C15: in the lagged model the dashboard estimates on the prepared panel, the
\* k-th lag regressor of every included observation of period t is the carbon
\* price of the period exactly k periods before t.
C15_LagIsCalendarLag ==
  (dashboard.analysed /\ dashboard.laggedModel6 # NullResult
     /\ dashboard.laggedModel6.feasible) =>
    LET data == dashboard.preparedData.data
        K == dashboard.laggedModel6.maxLags
        included == SortPeriods(IncludedRows(data, K))
        aligned == alignDataWithLags(data, K)
    IN  \A r \in 1..Len(included), k \in 0..K :
          \E j \in 1..Len(CalendarRows) :
            /\ RowPeriod(CalendarRows[j]) = RowPeriod(data[included[r]]) - k * PeriodStep
            /\ CalendarRows[j].etsPrice = aligned.carbonPrices[k + 1][r]

-----------------------------------------------------------------------------
(* Properties of the regression routines *)

\* some regressor array is not as long as y
LengthMismatch == \E j \in 1..Len(arg.x) : Len(arg.x[j]) # Len(arg.y)

\* C16: simpleOLS with y and x of different lengths, and multipleOLS with a
\* regressor whose length differs from y, return a failed result.
C16_LengthMismatchSurfaced ==
  /\ (call.op = "simpleOLS" /\ Len(arg.x[1]) # Len(arg.y)) => call.result = NullResult
  /\ (call.op = "multipleOLS" /\ LengthMismatch) => call.result = NullResult

\* the positions at which y and every regressor hold a number
CompleteObservations ==
  {i \in 1..Len(arg.y) :
     /\ arg.y[i] # NULL
     /\ \A j \in 1..Len(arg.x) : i <= Len(arg.x[j]) /\ arg.x[j][i] # NULL}

\* column c of the design matrix at observation i: the intercept column first
DesignValue(c, i) == IF c = 0 THEN One ELSE arg.x[c][i]

\* y[i] minus the fitted value of observation i
Residual(coefficients, i) ==
  NumSub(arg.y[i],
         SumSeq([c \in 1..Len(coefficients) |->
                   NumMul(coefficients[c], DesignValue(c - 1, i))]))

\* C20: multipleOLS with k regressors returns null exactly when fewer than
\* k + 1 rows have y and every regressor present; otherwise it reports n as the
\* number of those rows and k + 1 coefficients, which, when finite, are the
\* least-squares fit with an intercept on exactly those rows (the residuals
\* are orthogonal to every column of the design matrix).
C20_MultipleOLSCompleteRows ==
  call.op = "multipleOLS" =>
    LET k == Len(arg.x)
        rows == SortPeriods(CompleteObservations)
    IN  /\ call.result = NullResult <=> Len(rows) < k + 1
        /\ call.result # NullResult =>
             /\ call.result.n = Len(rows)
             /\ Len(call.result.coefficients) = k + 1
             /\ (\A c \in 1..(k + 1) : IsFinite(call.result.coefficients[c])) =>
                  \A c \in 0..k :
                    SumSeq([r \in 1..Len(rows) |->
                              NumMul(DesignValue(c, rows[r]),
                                     Residual(call.result.coefficients, rows[r]))]) = Zero

C20_Witness ==
  /\ call.op = "multipleOLS"
  /\ Len(arg.x) = 2
  /\ call.result # NullResult
  /\ call.result.n < Len(arg.y)
  /\ \A c \in 1..3 : IsFinite(call.result.coefficients[c])
  /\ call.result.coefficients[3] # Zero

\* the positions at which y and the single regressor both hold a number, in order
CompletePairs ==
  SortPeriods({i \in 1..Len(arg.y) :
                 i <= Len(arg.x[1]) /\ arg.y[i] # NULL /\ arg.x[1][i] # NULL})

\* y[i] minus the value the fitted line takes at x[i]
LineResidual(result, i) ==
  NumSub(arg.y[i], NumAdd(result.intercept, NumMul(result.slope, arg.x[1][i])))

\* the mean of y over the complete pairs
PairMeanY ==
  NumDiv(SumSeq([r \in 1..Len(CompletePairs) |-> arg.y[CompletePairs[r]]]),
         Num(Len(CompletePairs)))

\* the total sum of squares of y over the complete pairs
PairTotalSumOfSquares ==
  SumSquaredDeviations([r \in 1..Len(CompletePairs) |-> arg.y[CompletePairs[r]]],
                       PairMeanY)

\* C21: simpleOLS returns null exactly when fewer than 2 positions hold both
\* y and x; otherwise n is the number of those positions, the fitted line,
\* when finite, is the least-squares line through exactly those pairs,
\* rSquared is 0 when the total sum of squares of y is 0, and tStat is 0 when
\* the slope standard error is 0.
C21_SimpleOLSValidPairs ==
  call.op = "simpleOLS" =>
    LET rows == CompletePairs
    IN  /\ call.result = NullResult <=> Len(rows) < 2
        /\ call.result # NullResult =>
             /\ call.result.n = Len(rows)
             /\ (IsFinite(call.result.slope) /\ IsFinite(call.result.intercept)) =>
                  /\ SumSeq([r \in 1..Len(rows) |->
                               LineResidual(call.result, rows[r])]) = Zero
                  /\ SumSeq([r \in 1..Len(rows) |->
                               NumMul(arg.x[1][rows[r]],
                                      LineResidual(call.result, rows[r]))]) = Zero
             /\ PairTotalSumOfSquares = Zero => call.result.rSquared = Zero
             /\ call.result.seSlope = Zero => call.result.tStat = Zero

\* a constant y with one pair dropped: the fit is exact, so the total sum of
\* squares and the slope standard error are both 0
C21_Witness ==
  /\ call.op = "simpleOLS"
  /\ call.result # NullResult
  /\ call.result.n >= 3
  /\ call.result.n < Min(Len(arg.y), Len(arg.x[1]))
  /\ PairTotalSumOfSquares = Zero
  /\ call.result.seSlope = Zero
  /\ call.result.rSquared = Zero
  /\ call.result.tStat = Zero

\* the x of the complete pairs, and its mean
PairX == [r \in 1..Len(CompletePairs) |-> arg.x[1][CompletePairs[r]]]
PairMeanX == NumDiv(SumSeq(PairX), Num(Len(CompletePairs)))

\* C28: a result of multipleOLS has n - k - 1 >= 1, the divisor of its mean
\* squared error, and a result of simpleOLS has n - 2 >= 1, the divisor of its
\* residual standard error, and a non-zero sum of squared deviations of x,
\* the slope denominator.
C28_PositiveResidualDF ==
  /\ (call.op = "multipleOLS" /\ call.result # NullResult /\ call.result # TypeError) =>
       call.result.n - Len(arg.x) - 1 >= 1
  /\ (call.op = "simpleOLS" /\ call.result # NullResult) =>
       /\ call.result.n - 2 >= 1
       /\ SumSquaredDeviations(PairX, PairMeanX) # Zero


-----------------------------------------------------------------------------
(* Properties of the derived indicators and of the annual aggregation *)

\* the panel the call under way was given
CallPanel == SourcePanel(arg, call.source)

\* the non-null values of a variable in the rows of a year, in row order
YearValues(panel, year, field) ==
  LET ofYear == SelectSeq(panel, LAMBDA d : d.year = year)
  IN  SelectSeq([i \in 1..Len(ofYear) |-> ofYear[i][field]], LAMBDA v : v # NULL)

MeanOrNull(values) ==
  IF values = <<>> THEN NULL ELSE NumDiv(SumSeq(values), Num(Len(values)))

\* a sum of observed flows; no figure for a year without an observation
SumOrNull(values) == IF values = <<>> THEN NULL ELSE SumSeq(values)

\* C17: aggregateToAnnual returns one row per calendar year of the input in
\* ascending year order; import quantity and value are the sums of the
\* year's non-null monthly values, carbon price and activity index their
\* means (null when the year has none).
C17_AnnualAggregation ==
  call.op = "aggregateToAnnual" =>
    /\ {call.result[r].year : r \in 1..Len(call.result)}
         = {CallPanel[i].year : i \in 1..Len(CallPanel)}
    /\ \A r \in 1..(Len(call.result) - 1) : call.result[r].year < call.result[r + 1].year
    /\ \A r \in 1..Len(call.result) :
         LET year == call.result[r].year
         IN  /\ call.result[r].importQuantity_tons
                  = SumOrNull(YearValues(CallPanel, year, "importQuantity_tons"))
             /\ call.result[r].importValue_eur
                  = SumOrNull(YearValues(CallPanel, year, "importValue_eur"))
             /\ call.result[r].etsPrice = MeanOrNull(YearValues(CallPanel, year, "etsPrice"))
             /\ call.result[r].industryIndex
                  = MeanOrNull(YearValues(CallPanel, year, "industryIndex"))

\* growth of a variable at row t of a panel, as the rule states it
ExpectedGrowth(panel, t, field) ==
  IF t = 1 THEN NULL
  ELSE IF panel[t][field] = NULL \/ panel[t - 1][field] = NULL THEN NULL
  ELSE IF panel[t - 1][field] = Zero THEN NULL
  ELSE NumMul(NumDiv(NumSub(panel[t][field], panel[t - 1][field]), panel[t - 1][field]),
              Num(100))

\* C18: in every row t of calculateDerivedIndicators the growth of a variable
\* is null in the first row, when v(t) or v(t-1) is missing or v(t-1) = 0, and
\* (v(t) - v(t-1)) / v(t-1) * 100 otherwise, also when v(t) = 0.
C18_GrowthRate ==
  call.op = "calculateDerivedIndicators" =>
    \A t \in 1..Len(call.result) :
      /\ call.result[t].importGrowth = ExpectedGrowth(CallPanel, t, "importQuantity_tons")
      /\ call.result[t].valueGrowth = ExpectedGrowth(CallPanel, t, "importValue_eur")
      /\ call.result[t].etsGrowth = ExpectedGrowth(CallPanel, t, "etsPrice")

\* the rows of the trailing window of w rows at row i, clipped at the first row
WindowRows(i, w) == {j \in 1..i : j >= i - w + 1}

\* the mean of the non-null values of a variable in a window of rows, null
\* when the window holds none
WindowMean(panel, rows, field) ==
  LET present == SortPeriods({j \in rows : panel[j][field] # NULL})
  IN  IF Len(present) = 0 THEN NULL
      ELSE NumDiv(SumSeq([r \in 1..Len(present) |-> panel[present[r]][field]]),
                  Num(Len(present)))

\* C24: in every row i of calculateDerivedIndicators the moving average of
\* window 3 or 12 of the carbon price and of the import quantity is the mean
\* of the non-null values among the rows max(first, i - w + 1)..i, and is
\* null, not 0, exactly when all of them are null.
C24_MovingAverages ==
  call.op = "calculateDerivedIndicators" =>
    \A panel \in {CallPanel} :
      \A i \in 1..Len(call.result) :
        /\ call.result[i].etsMA3 = WindowMean(panel, WindowRows(i, 3), "etsPrice")
        /\ call.result[i].etsMA12 = WindowMean(panel, WindowRows(i, 12), "etsPrice")
        /\ call.result[i].importMA3
             = WindowMean(panel, WindowRows(i, 3), "importQuantity_tons")
        /\ call.result[i].importMA12
             = WindowMean(panel, WindowRows(i, 12), "importQuantity_tons")
        /\ call.result[i].etsMA3 = NULL
             <=> \A j \in WindowRows(i, 3) : panel[j].etsPrice = NULL
        /\ call.result[i].importMA12 = NULL
             <=> \A j \in WindowRows(i, 12) : panel[j].importQuantity_tons = NULL

\* a panel of more than 12 rows without any import observation, whose carbon
\* price is missing in some rows: past row 12 the window of 12 has slid, its
\* price average skips the missing rows and the import averages are null
C24_Witness ==
  /\ call.op = "calculateDerivedIndicators"
  /\ \E i \in 13..Len(call.result) :
       /\ call.result[i].etsMA12 # NULL
       /\ \E j \in WindowRows(i, 12) : CallPanel[j].etsPrice = NULL
       /\ call.result[i].etsMA12 # CallPanel[i].etsPrice
       /\ call.result[i].importMA3 = NULL

\* a log field is null for a missing, zero or negative source value and is the
\* logarithm of a positive one
LogGuarded(logValue, source) ==
  IF source # NULL /\ NumGt(source, Zero)
    THEN logValue # NULL /\ IsFinite(logValue) /\ logValue = MathLog(source)
  ELSE logValue = NULL

\* C19: in every row of calculateDerivedIndicators and of aggregateToAnnual
\* each of logImport, logETS, logIndustry is null when its source value is
\* missing, zero or negative and is the logarithm of the value when it is > 0.
C19_LogGuard ==
  call.op \in {"calculateDerivedIndicators", "aggregateToAnnual"} =>
    \A r \in 1..Len(call.result) :
      /\ LogGuarded(call.result[r].logImport, call.result[r].importQuantity_tons)
      /\ LogGuarded(call.result[r].logETS, call.result[r].etsPrice)
      /\ LogGuarded(call.result[r].logIndustry, call.result[r].industryIndex)

C19_Witness ==
  /\ call.op = "calculateDerivedIndicators"
  /\ Len(call.result) = MaxPeriods
  /\ \E r \in 1..Len(call.result) :
       /\ call.result[r].etsPrice # NULL /\ NumGt(Zero, call.result[r].etsPrice)
       /\ call.result[r].logETS = NULL
       /\ call.result[r].importQuantity_tons = Zero
  /\ \E r \in 1..Len(call.result) :
       call.result[r].logETS # NULL /\ call.result[r].logImport # NULL

-----------------------------------------------------------------------------
(* Properties of the intervention dummy *)

\* the panels the estimators are given: the loaded monthly panel, and what
\* prepareDataset makes of it (its complete rows, or their annual aggregate)
EstimatorPanels == {mergedData, prepareDataset(mergedData).data}

InWindow(d) == d.year >= 2023 /\ d.year <= 2025

-----------------------------------------------------------------------------
(* Properties of the annual fallback *)

\* the years in which the loaded panel has a complete row
CompleteYears ==
  {mergedData[i].year : i \in {j \in 1..Len(mergedData) : AllRequiredPresent(mergedData[j])}}

-----------------------------------------------------------------------------
(* Properties of the lagged model behind the gate *)

\* every row of the loaded panel has all variables, with a positive price
PanelComplete ==
  \A i \in 1..Len(mergedData) :
    AllRequiredPresent(mergedData[i]) /\ CBAMRowUsable(mergedData[i])

\* C27: on a complete monthly panel of n >= 20 rows, the lagged model
\* requested with K = min(6, maxLag of the gate), or with K = 12 when the gate
\* allows 12, returns neither insufficient-observations verdict: the n - K
\* rows left by the lag alignment are at least 10 + K + 2.
C27_GateAndEstimatorAgree ==
  (call.op = "estimateLaggedModel" /\ PanelComplete /\ Len(mergedData) >= 20) =>
    /\ call.result = NoEarlyReturn
    /\ Len(alignDataWithLags(mergedData, call.requestedMaxLags).y)
         = Len(mergedData) - call.requestedMaxLags
    /\ Len(mergedData) - call.requestedMaxLags >= 10 + call.requestedMaxLags + 2

\* twelve lags were requested, as the gate allows from 100 rows on, and the
\* sample checks let the call through
C27_Witness ==
  /\ call.op = "estimateLaggedModel"
  /\ PanelComplete
  /\ call.lagInfo.maxLag = 12
  /\ call.requestedMaxLags = 12
  /\ call.result = NoEarlyReturn

-----------------------------------------------------------------------------
(* Properties of the interaction gate's reason *)

PostWindowReason == "Insufficient post-CBAM observations (< 5 required)"

\* C29: for a non-empty panel the infeasibility reason of
\* checkCBAMFeasibility says that the post-window count is insufficient only
\* when postCBAM < 5, and when only the pre-window threshold fails
\* (preCBAM < 10, postCBAM >= 5) it does not blame the post-window count.
C29_ReasonNamesUnmetThreshold ==
  (call.op = "checkCBAMFeasibility" /\ Len(mergedData) > 0 /\ ~call.result.feasible) =>
    /\ call.result.reason = PostWindowReason => call.result.postCBAM < 5
    /\ (call.result.preCBAM < 10 /\ call.result.postCBAM >= 5) =>
         call.result.reason # PostWindowReason

-----------------------------------------------------------------------------
(* Properties of aggregateImports *)

\* the period keys of the entries, and their (period, partner country) pairs
EntryKeys == {ImportKey(arg.importsData[i]) : i \in 1..Len(arg.importsData)}
EntryPairs ==
  {<<ImportKey(arg.importsData[i]), arg.importsData[i].partnerCountry>> :
     i \in 1..Len(arg.importsData)}

\* the sum of field over the records of one period
PeriodSum(records, key, field) ==
  LET ofPeriod == SelectSeq(records, LAMBDA r : r.yearMonth = key)
  IN  SumSeq([i \in 1..Len(ofPeriod) |-> ofPeriod[i][field]])

\* the sum of field over the input entries of one period
EntrySum(key, field) ==
  LET ofPeriod == SelectSeq(arg.importsData, LAMBDA e : ImportKey(e) = key)
  IN  SumSeq([i \in 1..Len(ofPeriod) |-> ofPeriod[i][field]])

\* C30: the total list of aggregateImports has exactly one record per
\* distinct period key; its totalQuantity_tons and totalValue_eur are the sums
\* over all input entries of the period and equal the sums of the byCountry
\* records of the period; byCountry has exactly one record per distinct
\* (period, partner country) pair.
C30_ImportsConserved ==
  call.op = "aggregateImports" =>
    \A result \in {call.result} :
      /\ Len(result.total) = Cardinality(EntryKeys)
      /\ {result.total[i].yearMonth : i \in 1..Len(result.total)} = EntryKeys
      /\ \A i \in 1..Len(result.total) :
           \A key \in {result.total[i].yearMonth} :
             /\ result.total[i].totalQuantity_tons = EntrySum(key, "quantity_tons")
             /\ result.total[i].totalValue_eur = EntrySum(key, "value_eur")
             /\ result.total[i].totalQuantity_tons
                  = PeriodSum(result.byCountry, key, "quantity_tons")
             /\ result.total[i].totalValue_eur
                  = PeriodSum(result.byCountry, key, "value_eur")
      /\ Len(result.byCountry) = Cardinality(EntryPairs)
      /\ {<<result.byCountry[i].yearMonth, result.byCountry[i].partnerCountry>> :
            i \in 1..Len(result.byCountry)} = EntryPairs

\* three flows: two of the same country in the same month, one of them known
\* by its date only, and one of that country in the other month
C30_Witness ==
  /\ call.op = "aggregateImports"
  /\ Len(arg.importsData) = 3
  /\ \E i \in 1..3 : "yearMonth" \notin DOMAIN arg.importsData[i]
  /\ Len(call.result.total) = 2
  /\ Len(call.result.byCountry) = 2
  /\ \E i \in 1..2 : call.result.total[i].totalQuantity_tons = Num(3)
  /\ \A i \in 1..2 : NumGt(call.result.total[i].totalValue_eur, Zero)

=============================================================================
